---------------------------- MODULE Spec2Model ----------------------------
(***************************************************************************)
(* Model of sf_printer_server:                                             *)
(*   - the job processor (jobs/processor.py, jobs/models.py,               *)
(*     printers/drivers.py), specification SpecJob;                        *)
(*   - the Pub/Sub subscription engine (salesforce/pubsub.py),             *)
(*     specifications SpecSub, SpecSubLive and SpecSubGen (with            *)
(*     fairness) and SpecResub (subscribe_to_events called again on the    *)
(*     same client);                                                       *)
(*   - the program as main.py starts it, specification SpecMain;           *)
(*   - direct calls of the printer-info cache (SpecCache, and              *)
(*     SpecCacheRace with get_printer_info line by line) and of            *)
(*     _resolve_content, get_printer_driver, PrintJob.from_event and       *)
(*     CUPSDriver._lp, with salesforce/context.py (SpecUnit).              *)
(*                                                                         *)
(* Python strings are sequences of one-character strings, so that          *)
(* strip(), lower(), endswith() and int() are computed, not assumed.       *)
(* Byte payloads are sequences of ZPL tokens ("^XA", "^PW", ...); the      *)
(* test  b'^PW' in content_bytes  is membership of the token.              *)
(***************************************************************************)
EXTENDS Integers, Sequences, FiniteSets, TLC

VARIABLES
    \* ---- job processor (module globals of processor.py / drivers.py)
    seen,            \* _seen_correlations restricted to the tracked ids
    seenOther,       \* number of further ids held by _seen_correlations
    cache,           \* _printer_info_cache: key -> info map
    \* ---- one process_event call in progress
    jpc,             \* position inside process_event
    job,             \* the PrintJob built by from_event
    content_bytes,   \* local content_bytes of _handle_print_job
    copy,            \* loop variable i of the qty loop
    call,            \* what the call in progress has done so far
    prev,            \* the event of the call before this one
    lookup,          \* the latest direct get_printer_info call and its result
    printed,         \* correlation ids whose content a driver has accepted
    \* ---- subscription engine (SalesforcePubSubClient and its peers)
    running,         \* self.running
    semaphore,       \* value of self.semaphore
    latest_replay_id,\* self.latest_replay_id (0 models None)
    spc,             \* position of subscribe_to_events
    gpc,             \* position of the _fetch_request_stream generator
    first_request,   \* local first_request of the generator
    num_requested,   \* argument num_requested of subscribe_to_events
    batch,           \* the fetch_response being processed
    idx,             \* index of consumer_event inside batch.events
    inbox,           \* response batches sent by the bus, not yet received
    pending,         \* events requested from the bus and not yet delivered
    published,       \* number of events the bus has delivered so far
    keepalives,      \* number of keepalive batches the bus has sent
    fetches,         \* number of fetch requests issued so far
    received,        \* number of response batches received so far
    handled,         \* ids of the events passed to the handler, in order
    dropped,         \* ids of the events dropped by a per-event failure
    active,          \* number of handler invocations in progress
    raised_by,       \* the call of this subscription that raised last
    resubs,          \* number of subscribe_to_events calls after the first
    \* ---- salesforce/context.py (module globals)
    _instance_url,   \* _instance_url
    _access_token,   \* _access_token
    \* ---- one direct call of a function of the job pipeline
    upc,             \* the function the call in hand belongs to, and its position
    rjob,            \* the PrintJob given to _resolve_content
    written,         \* the bytes and the form the content of rjob was written from
    request,         \* the HTTP GET issued by _resolve_content
    resolved,        \* what _resolve_content returned
    picked,          \* get_printer_driver: its argument and its result
    built,           \* PrintJob.from_event: its argument and its result
    tmpfiles,        \* the temporary files on disk
    lp               \* CUPSDriver._lp: its locals and its result

jobvars == <<seen, seenOther, cache, jpc, job, content_bytes, copy, call, prev,
            lookup, printed>>
subvars == <<running, semaphore, latest_replay_id, spc, gpc, first_request,
             num_requested, batch, idx, inbox, pending, published, keepalives,
             fetches, received, handled, dropped, active, raised_by>>
unitvars == <<_instance_url, _access_token, upc, rjob, written, request,
              resolved, picked, built, tmpfiles, lp>>
vars == <<jobvars, subvars, resubs, unitvars>>

----------------------------------------------------------------------------
(* Bounds of the model *)

\* largest Qty__c an event carries
MaxQty == 2
\* number of events the bus delivers in one run
MaxEvents == 3
\* number of keepalive batches the bus sends in one run
MaxKeepalives == 2
\* largest num_requested a caller passes to subscribe_to_events
MaxRequested == 2

----------------------------------------------------------------------------
(* Python values and strings *)

None == [tag |-> "none", s |-> <<>>, n |-> 0]
Str(x) == [tag |-> "str", s |-> x, n |-> 0]
IntV(k) == [tag |-> "int", s |-> <<>>, n |-> k]

\* Python truthiness of a value:  None, '' and 0 are falsy
Truthy(v) ==
    CASE v.tag = "none" -> FALSE
      [] v.tag = "str" -> v.s # <<>>
      [] v.tag = "int" -> v.n # 0

\* v or d
OrElse(v, d) == IF Truthy(v) THEN v ELSE d

UPPER == <<"A","B","C","D","E","F","G","H","I","J","K","L","M",
           "N","O","P","Q","R","S","T","U","V","W","X","Y","Z">>
LOWER == <<"a","b","c","d","e","f","g","h","i","j","k","l","m",
           "n","o","p","q","r","s","t","u","v","w","x","y","z">>
DIGITS == <<"0","1","2","3","4","5","6","7","8","9">>
WHITESPACE == {" ", "\t", "\n", "\r"}

LowerChar(c) ==
    IF \E i \in 1..Len(UPPER) : UPPER[i] = c
    THEN LOWER[CHOOSE i \in 1..Len(UPPER) : UPPER[i] = c]
    ELSE c

\* str.lower()
lower(s) == [i \in 1..Len(s) |-> LowerChar(s[i])]

RECURSIVE lstrip(_)
lstrip(s) ==
    IF s # <<>> /\ Head(s) \in WHITESPACE THEN lstrip(Tail(s)) ELSE s

RECURSIVE rstrip(_)
rstrip(s) ==
    IF s # <<>> /\ s[Len(s)] \in WHITESPACE
    THEN rstrip(SubSeq(s, 1, Len(s) - 1))
    ELSE s

\* str.strip()
strip(s) == rstrip(lstrip(s))

\* str.endswith(suffix)
endswith(s, suffix) ==
    /\ Len(s) >= Len(suffix)
    /\ SubSeq(s, Len(s) - Len(suffix) + 1, Len(s)) = suffix

IsDigit(c) == \E i \in 1..Len(DIGITS) : DIGITS[i] = c
DigitVal(c) == (CHOOSE i \in 1..Len(DIGITS) : DIGITS[i] = c) - 1

RECURSIVE DigitsVal(_)
DigitsVal(s) ==
    IF s = <<>> THEN 0
    ELSE 10 * DigitsVal(SubSeq(s, 1, Len(s) - 1)) + DigitVal(s[Len(s)])

\* int(str): surrounding whitespace and one sign are accepted; anything else
\* is a ValueError.  The result is [ok, n].
IntOfStr(s0) ==
    LET s == strip(s0)
        signed == s # <<>> /\ Head(s) \in {"-", "+"}
        body == IF signed THEN Tail(s) ELSE s
    IN  IF body # <<>> /\ \A i \in 1..Len(body) : IsDigit(body[i])
        THEN [ok |-> TRUE,
              n |-> IF signed /\ Head(s) = "-" THEN 0 - DigitsVal(body)
                    ELSE DigitsVal(body)]
        ELSE [ok |-> FALSE, n |-> 0]

Max(a, b) == IF a >= b THEN a ELSE b

\* the strings the code compares against
S_print_job == <<"p","r","i","n","t","_","j","o","b">>
S_raw == <<"r","a","w">>
S_zpl == <<"z","p","l">>
S_cups == <<"c","u","p","s">>
S_ipp == <<"i","p","p">>
S_uri == <<"_","u","r","i">>
S_base64 == <<"_","b","a","s","e","6","4">>
S_pdf_uri == <<"p","d","f">> \o S_uri
S_pdf_base64 == <<"p","d","f">> \o S_base64
S_raw_uri == S_raw \o S_uri
S_raw_base64 == S_raw \o S_base64

----------------------------------------------------------------------------
(* jobs/models.py: PrintJob *)

EmptyMap == <<>>

\* event.get(key), and event.get(key, default)
Get(event, key) == IF key \in DOMAIN event THEN event[key] ELSE None
GetOr(event, key, default) == IF key \in DOMAIN event THEN event[key] ELSE default

\* default TCP port of a printer
DEFAULT_PORT == 9100

\* a variant of _int that answers 0 for what it cannot read
_int_zero(val, default) ==
    IF val.tag = "int" THEN val.n
    ELSE IF val.tag = "str" /\ IntOfStr(val.s).ok THEN IntOfStr(val.s).n
    ELSE 0

\* _int(val, default) of from_event
_int(val, default) ==
    IF val.tag = "none" \/ val = Str(<<>>) THEN default
    ELSE IF val.tag = "int" THEN val.n
    ELSE IF IntOfStr(val.s).ok THEN IntOfStr(val.s).n
    ELSE default

\* the JSON texts the events carry
J_empty == <<"{", "}">>
J_copies == <<"{", "\"", "c", "o", "p", "i", "e", "s", "\"", ":", "2", "}">>
J_broken == <<"{", "\"", "c">>

\* json.loads on those texts: [ok, value]; every other text is malformed
json_loads(s) ==
    CASE s = J_empty -> [ok |-> TRUE, value |-> EmptyMap]
      [] s = J_copies -> [ok |-> TRUE, value |-> [copies |-> 2]]
      [] OTHER -> [ok |-> FALSE, value |-> EmptyMap]

\* _json(val) of from_event
_json(val) ==
    IF ~Truthy(val) THEN EmptyMap
    ELSE IF val.tag # "str" THEN EmptyMap
    ELSE IF json_loads(val.s).ok THEN json_loads(val.s).value
    ELSE EmptyMap

\* the fields of the PrintJob dataclass
PrintJobFields ==
    {"printer_host", "printer_port", "printer_type", "content_type", "content",
     "title", "source", "qty", "expire_after", "options", "auth_config",
     "correlation_id"}

NoJob == [f \in {} |-> 0]

\* (v or d).lower().strip() raises AttributeError when v is truthy and not a str
NormRaises(v) == Truthy(v) /\ v.tag # "str"
Norm(v, d) == strip(lower(OrElse(v, Str(d)).s))

\* PrintJob.from_event(event): [ok, job]; ok = FALSE when it raises
from_event(event) ==
    IF NormRaises(Get(event, "Printer_Type__c"))
       \/ NormRaises(Get(event, "Content_Type__c"))
    THEN [ok |-> FALSE, job |-> NoJob]
    ELSE [ok |-> TRUE,
          job |-> [printer_host |-> GetOr(event, "Printer_Host__c", Str(<<>>)),
                   printer_port |-> _int(Get(event, "Printer_Port__c"), DEFAULT_PORT),
                   printer_type |-> Norm(Get(event, "Printer_Type__c"), S_raw),
                   content_type |-> Norm(Get(event, "Content_Type__c"), <<>>),
                   content |-> OrElse(Get(event, "Content__c"), Str(<<>>)),
                   title |-> OrElse(Get(event, "Job_Title__c"), Str(<<>>)),
                   source |-> OrElse(Get(event, "Source__c"), Str(<<>>)),
                   qty |-> Max(1, _int(Get(event, "Qty__c"), 1)),
                   expire_after |-> _int(Get(event, "Expire_After__c"), 0),
                   options |-> _json(Get(event, "Options__c")),
                   auth_config |-> _json(Get(event, "Auth_Config__c")),
                   correlation_id |-> OrElse(Get(event, "Correlation_Id__c"), Str(<<>>)).s]]

\* PrintJob.is_raw
is_raw(j) ==
    \/ j.content_type \in {S_raw_uri, S_raw_base64}
    \/ j.printer_type \in {S_zpl, S_raw}

\* PrintJob.is_pdf
is_pdf(j) == j.content_type \in {S_pdf_uri, S_pdf_base64}

----------------------------------------------------------------------------
(* printers/drivers.py *)

\* the maps a device probe can give: query_zebra_info returns {} on any
\* failure, else the values it could parse
ProbeResults ==
    {EmptyMap, [width_dots |-> 812], [dpi |-> 203, width_dots |-> 812, darkness |-> 15]}

\* key = f"{host}:{port}"
Key(host, port) == <<host, port>>

\* a variant of get_printer_info that caches whatever the probe gives
get_printer_info_caches_all(c, host, port, probe) ==
    LET key == Key(host, port) IN
    IF key \notin DOMAIN c
    THEN [info |-> probe,
          cache |-> [k \in DOMAIN c \cup {key} |-> IF k = key THEN probe ELSE c[k]],
          probes |-> 1]
    ELSE [info |-> c[key], cache |-> c, probes |-> 0]

\* a variant of get_printer_info that asks the device on every call
get_printer_info_refreshes(c, host, port, probe) ==
    LET key == Key(host, port) IN
    IF DOMAIN probe # {}
    THEN [info |-> probe,
          cache |-> [k \in DOMAIN c \cup {key} |-> IF k = key THEN probe ELSE c[k]],
          probes |-> 1]
    ELSE [info |-> IF key \in DOMAIN c THEN c[key] ELSE EmptyMap, cache |-> c,
          probes |-> 1]

\* get_printer_info(host, port), the device answering `probe` when asked:
\* [info, cache, probes]
get_printer_info(c, host, port, probe) ==
    LET key == Key(host, port) IN
    IF key \notin DOMAIN c
    THEN IF DOMAIN probe # {}
         THEN [info |-> probe,
               cache |-> [k \in DOMAIN c \cup {key} |-> IF k = key THEN probe ELSE c[k]],
               probes |-> 1]
         ELSE [info |-> EmptyMap, cache |-> c, probes |-> 1]
    ELSE [info |-> c[key], cache |-> c, probes |-> 0]

\* a variant of clear_printer_cache that evicts every entry of the host
clear_printer_cache_by_host(c, host, port) ==
    IF Truthy(host) /\ Truthy(port)
    THEN [k \in {q \in DOMAIN c : q[1] # host.s} |-> c[k]]
    ELSE [k \in {} |-> EmptyMap]

\* clear_printer_cache(host, port)
clear_printer_cache(c, host, port) ==
    IF Truthy(host) /\ Truthy(port)
    THEN [k \in DOMAIN c \ {Key(host.s, port.n)} |-> c[k]]
    ELSE [k \in {} |-> EmptyMap]

\* a variant of get_printer_driver that compares the type as it comes
get_printer_driver_exact(printer_type) ==
    LET t == IF printer_type # <<>> THEN printer_type ELSE S_raw IN
    IF t \in {S_zpl, S_raw} THEN "RawTCPDriver"
    ELSE IF t \in {S_cups, S_ipp} THEN "CUPSDriver"
    ELSE "RawTCPDriver"

\* get_printer_driver(host, port, printer_type): the class of the driver
get_printer_driver(printer_type) ==
    LET t == strip(lower(IF printer_type # <<>> THEN printer_type ELSE S_raw)) IN
    IF t \in {S_zpl, S_raw} THEN "RawTCPDriver"
    ELSE IF t \in {S_cups, S_ipp} THEN "CUPSDriver"
    ELSE "RawTCPDriver"

\* what one driver.print_raw call can do: return True, return False, raise.
\* RawTCPDriver.print_raw catches socket errors only; CUPSDriver._lp
\* catches every Exception.
PrintRawOutcomes(driver) ==
    IF driver = "RawTCPDriver" THEN {"ok", "fail", "raise"} ELSE {"ok", "fail"}

\* what one driver.print_pdf call can do.  RawTCPDriver.print_pdf returns
\* False; CUPSDriver.print_pdf builds the lp options outside _lp's try.
PrintPdfOutcomes(driver) ==
    IF driver = "RawTCPDriver" THEN {"fail"} ELSE {"ok", "fail", "raise"}

\* a variant in which RawTCPDriver.print_pdf tries the socket before it
\* gives up
print_pdf_opens_socket(driver, out) ==
    IF driver = "RawTCPDriver" THEN [ret |-> FALSE, deviceCalls |-> 1]
    ELSE [ret |-> out = "ok", deviceCalls |-> IF out = "raise" THEN 0 ELSE 1]

\* driver.print_pdf(content, options) answering `out`: what it returns and
\* how often it reaches for the device.  RawTCPDriver.print_pdf (lines
\* 161-164) logs and returns False; CUPSDriver.print_pdf runs lp unless
\* _build_lp_options raised.
print_pdf(driver, out) ==
    IF driver = "RawTCPDriver" THEN [ret |-> FALSE, deviceCalls |-> 0]
    ELSE [ret |-> out = "ok", deviceCalls |-> IF out = "raise" THEN 0 ELSE 1]

----------------------------------------------------------------------------
(* jobs/processor.py *)

MAX_IDEMPOTENCY_CACHE == 10000

\* a token of a byte payload
Tok(c, a) == [cmd |-> c, arg |-> a]
CRLF == Tok("\r\n", 0)

\* b'^PW' in content_bytes
Contains(bytes, c) == \E i \in 1..Len(bytes) : bytes[i].cmd = c

\* the payloads a download or a base64 decode can give
P_plain == <<Tok("^XA", 0), Tok("^FO", 50), Tok("^FD", 0)>>
P_pw == <<Tok("^XA", 0), Tok("^PW", 400), Tok("^FD", 0), Tok("^XZ", 0)>>
P_ll == <<Tok("^XA", 0), Tok("^LL", 600), Tok("^FD", 0), Tok("^XZ", 0)>>
Payloads == {P_plain, P_pw, P_ll}

\* what the environment answers to _resolve_content: the GET of a *_uri
\* content or the decoding of a *_base64 content succeeds with a payload,
\* or fails
ResolveOutcomes ==
    {[ok |-> FALSE, bytes |-> <<>>]} \cup {[ok |-> TRUE, bytes |-> b] : b \in Payloads}

\* a variant of _resolve_content that takes a content_type it does not know
\* for an empty payload
_resolve_content_lenient(j, out) ==
    IF endswith(j.content_type, S_uri)
    THEN [ok |-> out.ok, bytes |-> out.bytes, downloads |-> 1]
    ELSE IF endswith(j.content_type, S_base64)
    THEN [ok |-> out.ok, bytes |-> out.bytes, downloads |-> 0]
    ELSE [ok |-> TRUE, bytes |-> <<>>, downloads |-> 0]

\* _resolve_content(job): [ok, bytes, downloads]; ok = FALSE when it raises
_resolve_content(j, out) ==
    IF endswith(j.content_type, S_uri)
    THEN [ok |-> out.ok, bytes |-> out.bytes, downloads |-> 1]
    ELSE IF endswith(j.content_type, S_base64)
    THEN [ok |-> out.ok, bytes |-> out.bytes, downloads |-> 0]
    ELSE [ok |-> FALSE, bytes |-> <<>>, downloads |-> 0]

\* '\r\n'.join(lines) + '\r\n'
RECURSIVE JoinLines(_)
JoinLines(lines) ==
    IF lines = <<>> THEN <<>>
    ELSE <<Head(lines), CRLF>> \o JoinLines(Tail(lines))

\* the setup block built from a non-empty config
SetupBlock(config) ==
    JoinLines(
        <<Tok("^XA", 0)>>
        \o (IF "width_dots" \in DOMAIN config
            THEN <<Tok("^PW", config.width_dots)>> ELSE <<>>)
        \o (IF "height_dots" \in DOMAIN config
            THEN <<Tok("^LL", config.height_dots)>> ELSE <<>>)
        \o (IF "darkness" \in DOMAIN config
            THEN <<Tok("^MD", config.darkness)>> ELSE <<>>)
        \o (IF "prefix" \in DOMAIN config /\ Truthy(config.prefix)
            THEN <<Tok("prefix", 0)>> ELSE <<>>)
        \o <<Tok("^XZ", 0)>>)

\* a variant of _apply_zpl_config that takes only ^PW for a setup command
_apply_zpl_config_pw_only(j, bytes, c, probe) ==
    IF Contains(bytes, "^PW")
    THEN [raised |-> FALSE, bytes |-> bytes, cache |-> c, probes |-> 0]
    ELSE IF "zpl_config" \notin DOMAIN j
    THEN [raised |-> TRUE, bytes |-> bytes, cache |-> c, probes |-> 0]
    ELSE [raised |-> FALSE, bytes |-> bytes, cache |-> c, probes |-> 0]

\* _apply_zpl_config(job, content_bytes): [raised, bytes, cache, probes].
\* job.zpl_config is an attribute lookup on the PrintJob: it raises
\* AttributeError when the dataclass has no such field.
_apply_zpl_config(j, bytes, c, probe) ==
    IF Contains(bytes, "^PW") \/ Contains(bytes, "^LL")
    THEN [raised |-> FALSE, bytes |-> bytes, cache |-> c, probes |-> 0]
    ELSE IF "zpl_config" \notin DOMAIN j
    THEN [raised |-> TRUE, bytes |-> bytes, cache |-> c, probes |-> 0]
    ELSE LET own == DOMAIN j.zpl_config # {}
             got == get_printer_info(c, j.printer_host.s, j.printer_port, probe)
             config == IF own THEN j.zpl_config ELSE got.info
             c2 == IF own THEN c ELSE got.cache
             n == IF own THEN 0 ELSE got.probes
         IN  IF DOMAIN config = {}
             THEN [raised |-> FALSE, bytes |-> bytes, cache |-> c2, probes |-> n]
             ELSE [raised |-> FALSE, bytes |-> SetupBlock(config) \o bytes,
                   cache |-> c2, probes |-> n]

\* a variant of the idempotency check that applies the bound after the insertion
IdempotencyClearAfterAdd(cid, s, other) ==
    IF cid # <<>>
    THEN IF cid \in s THEN [dup |-> TRUE, seen |-> s, other |-> other]
         ELSE IF Cardinality(s \cup {cid}) + other >= MAX_IDEMPOTENCY_CACHE
              THEN [dup |-> FALSE, seen |-> {}, other |-> 0]
              ELSE [dup |-> FALSE, seen |-> s \cup {cid}, other |-> other]
    ELSE [dup |-> FALSE, seen |-> s, other |-> other]

\* a variant of the idempotency check that never clears the set
IdempotencyNoClear(cid, s, other) ==
    IF cid # <<>>
    THEN IF cid \in s THEN [dup |-> TRUE, seen |-> s, other |-> other]
         ELSE [dup |-> FALSE, seen |-> s \cup {cid}, other |-> other]
    ELSE [dup |-> FALSE, seen |-> s, other |-> other]

\* a variant of the idempotency check that takes the empty id for an id
IdempotencyEmptyIds(cid, s, other) ==
    IF cid \in s THEN [dup |-> TRUE, seen |-> s, other |-> other]
    ELSE IF Cardinality(s) + other >= MAX_IDEMPOTENCY_CACHE
         THEN [dup |-> FALSE, seen |-> {cid}, other |-> 0]
         ELSE [dup |-> FALSE, seen |-> s \cup {cid}, other |-> other]

\* lines 62-69: the idempotency check on a parsed job: [dup, seen, other]
Idempotency(cid, s, other) ==
    IF cid # <<>>
    THEN IF cid \in s THEN [dup |-> TRUE, seen |-> s, other |-> other]
         ELSE IF Cardinality(s) + other >= MAX_IDEMPOTENCY_CACHE
              THEN [dup |-> FALSE, seen |-> {cid}, other |-> 0]
              ELSE [dup |-> FALSE, seen |-> s \cup {cid}, other |-> other]
    ELSE [dup |-> FALSE, seen |-> s, other |-> other]

----------------------------------------------------------------------------
(* The events submitted to process_event *)

H1 == <<"h", "1">>
H2 == <<"h", "2">>
CidA == <<"a">>
CidB == <<"b">>

JobTypeValues ==
    {Str(S_print_job), Str(<<" ", "P", "r", "i", "n", "t", "_", "J", "O", "B", " ">>)}
OtherTypeValues ==
    {None, Str(<<>>), Str(<<"h", "e", "a", "r", "t", "b", "e", "a", "t">>), IntV(5)}
HostValues == {None, Str(H1)}
PortValues == {None}
PrinterTypeValues ==
    {None, Str(S_zpl), Str(<<" ", "Z", "P", "L">>), Str(S_cups),
     Str(<<"f", "o", "o">>), IntV(5)}
ContentTypeValues ==
    {None, Str(S_raw_base64), Str(S_raw_uri), Str(S_pdf_base64), Str(S_pdf_uri)}
ContentValues == {None, Str(<<"x">>)}
QtyValues == {None, Str(<<"2">>), Str(<<"x">>), IntV(0), IntV(MaxQty)}
PdfTypeValues == {Str(S_pdf_base64), Str(S_pdf_uri)}
OptionsValues == {None, Str(J_copies), Str(J_broken)}
CidValues == {None, Str(<<>>), Str(CidA), Str(CidB)}

Event(ty, h, po, pt, ct, c, q, o, cid) ==
    [Type__c |-> ty, Printer_Host__c |-> h, Printer_Port__c |-> po,
     Printer_Type__c |-> pt, Content_Type__c |-> ct, Content__c |-> c,
     Qty__c |-> q, Options__c |-> o, Correlation_Id__c |-> cid]

\* print_job events with a host and a content: every printer type, content
\* type, quantity and correlation id; Options__c, which only print_pdf
\* reads, varies with the document content types
DispatchEvents ==
    {Event(Str(S_print_job), Str(H1), po, pt, ct, Str(<<"x">>), q, None, cid) :
        po \in PortValues, pt \in PrinterTypeValues,
        ct \in ContentTypeValues \ PdfTypeValues, q \in QtyValues, cid \in CidValues}
    \cup
    {Event(Str(S_print_job), Str(H1), None, pt, ct, Str(<<"x">>), q, o, cid) :
        pt \in PrinterTypeValues, ct \in PdfTypeValues, q \in QtyValues,
        o \in OptionsValues, cid \in CidValues}

\* print_job events in every spelling of the type, with or without a host
\* and a content
RoutingEvents ==
    {Event(ty, h, None, None, Str(S_raw_base64), c, None, None, cid) :
        ty \in JobTypeValues, h \in HostValues, c \in ContentValues, cid \in CidValues}

\* events of another type
OtherEvents ==
    {Event(ty, None, None, None, None, None, None, None, cid) :
        ty \in OtherTypeValues, cid \in CidValues}

----------------------------------------------------------------------------
(* One process_event call, step by step *)

NoCall ==
    [evType |-> None, raised |-> FALSE, hostEmpty |-> FALSE, contentEmpty |-> FALSE,
     isJob |-> FALSE, evCid |-> <<>>, parsed |-> FALSE, dup |-> FALSE,
     dispatched |-> FALSE, driver |-> "", downloads |-> 0, probes |-> 0,
     outcomes |-> <<>>, pdfCalls |-> 0, pdfOptions |-> EmptyMap, deviceCalls |-> 0,
     resolved |-> <<>>, sent |-> <<>>, done |-> FALSE, ret |-> FALSE]

NoPrev == [isJob |-> FALSE, evCid |-> <<>>, parsed |-> FALSE]

\* the call returns r
Returned(c, r) == [c EXCEPT !.done = TRUE, !.ret = r]

\* a variant of the discriminator that compares Type__c as it comes
EventTypeRaw(v) == OrElse(v, Str(<<>>)).s
\* line 45: (event.get('Type__c') or '').strip().lower()
EventType(v) == strip(lower(OrElse(v, Str(<<>>)).s))

\* a variant of the routing test that asks for a host only
RejectedWithoutHost(j) == ~Truthy(j.printer_host)
\* lines 71-77: a job without a host or without a content cannot be routed
Rejected(j) == ~Truthy(j.printer_host) \/ ~Truthy(j.content)

\* process_event(event) up to its first I/O: lines 45-51 and 54-79.  The
\* variable job keeps the PrintJob only while the call still reads it.
\* .strip() on a Type__c that is truthy and not a string raises
\* AttributeError out of process_event.
process_event(event) ==
    /\ jpc = "idle"
    /\ LET ty == Get(event, "Type__c")
           event_type == EventType(ty)
           evCid == OrElse(Get(event, "Correlation_Id__c"), Str(<<>>)).s
           fe == from_event(event)
           idem == Idempotency(fe.job.correlation_id, seen, seenOther)
           base == [NoCall EXCEPT !.evType = ty]
           c0 == [base EXCEPT !.isJob = TRUE, !.evCid = evCid,
                              !.hostEmpty = ~Truthy(Get(event, "Printer_Host__c")),
                              !.contentEmpty = ~Truthy(Get(event, "Content__c"))]
           c1 == [c0 EXCEPT !.parsed = TRUE]
       IN  IF NormRaises(ty)
           THEN /\ call' = Returned([base EXCEPT !.raised = TRUE], FALSE)
                /\ jpc' = "done"
                /\ UNCHANGED <<seen, seenOther, job>>
           ELSE IF event_type # S_print_job
           THEN /\ call' = Returned(base, FALSE)
                /\ jpc' = "done"
                /\ UNCHANGED <<seen, seenOther, job>>
           ELSE IF ~fe.ok
           THEN /\ call' = Returned(c0, FALSE)
                /\ jpc' = "done"
                /\ UNCHANGED <<seen, seenOther, job>>
           ELSE IF idem.dup
           THEN /\ call' = Returned([c1 EXCEPT !.dup = TRUE], TRUE)
                /\ jpc' = "done"
                /\ UNCHANGED <<seen, seenOther, job>>
           ELSE /\ seen' = idem.seen
                /\ seenOther' = idem.other
                /\ IF Rejected(fe.job)
                   THEN call' = Returned(c1, FALSE) /\ jpc' = "done" /\ UNCHANGED job
                   ELSE call' = c1 /\ jpc' = "resolve" /\ job' = fe.job
    /\ UNCHANGED <<cache, content_bytes, copy, prev, lookup, printed, subvars,
                   resubs, unitvars>>

\* lines 81-98 and 106-113: resolve the content, pick the driver, prepare
\* the payload
ResolveAndPrepare(out, probe) ==
    /\ jpc = "resolve"
    /\ LET r == _resolve_content(job, out)
           c1 == [call EXCEPT !.downloads = r.downloads]
           c2 == [c1 EXCEPT !.dispatched = TRUE, !.resolved = r.bytes,
                            !.driver = get_printer_driver(job.printer_type)]
           z == IF job.printer_type = S_zpl
                THEN _apply_zpl_config(job, r.bytes, cache, probe)
                ELSE [raised |-> FALSE, bytes |-> r.bytes, cache |-> cache, probes |-> 0]
           c3 == [c2 EXCEPT !.probes = z.probes]
       IN  IF ~r.ok
           THEN /\ call' = Returned(c1, FALSE)
                /\ jpc' = "done"
                /\ UNCHANGED <<cache, content_bytes>>
           ELSE IF is_raw(job)
           THEN /\ cache' = z.cache
                /\ IF z.raised
                   THEN /\ call' = Returned(c3, FALSE)
                        /\ jpc' = "done"
                        /\ UNCHANGED content_bytes
                   ELSE /\ call' = [c3 EXCEPT !.sent = z.bytes]
                        /\ jpc' = "print_raw"
                        /\ content_bytes' = z.bytes
           ELSE IF is_pdf(job)
           THEN /\ call' = [c2 EXCEPT !.sent = r.bytes]
                /\ jpc' = "print_pdf"
                /\ content_bytes' = r.bytes
                /\ UNCHANGED cache
           ELSE /\ call' = Returned(c2, FALSE)
                /\ jpc' = "done"
                /\ UNCHANGED <<cache, content_bytes>>
    /\ copy' = 0
    /\ UNCHANGED <<seen, seenOther, job, prev, lookup, printed, subvars,
                   resubs, unitvars>>

\* the ids whose content a driver has accepted, after a driver call for the
\* job with the id cid has answered `out`
Accepted(ids, cid, out) == IF out = "ok" /\ cid # <<>> THEN ids \cup {cid} ELSE ids

\* lines 100-105: one turn of the qty loop, driver.print_raw answering `out`
PrintRawCopy(out) ==
    /\ jpc = "print_raw"
    /\ out \in PrintRawOutcomes(call.driver)
    /\ LET qty == Max(1, job.qty)
           c1 == [call EXCEPT !.outcomes = Append(@, out), !.deviceCalls = @ + 1]
       IN  IF out # "ok"
           THEN call' = Returned(c1, FALSE) /\ jpc' = "done" /\ UNCHANGED copy
           ELSE IF copy + 1 < qty
           THEN call' = c1 /\ copy' = copy + 1 /\ UNCHANGED jpc
           ELSE call' = Returned(c1, TRUE) /\ jpc' = "done" /\ UNCHANGED copy
    /\ printed' = Accepted(printed, call.evCid, out)
    /\ UNCHANGED <<seen, seenOther, cache, job, content_bytes, prev, lookup,
                   subvars, resubs, unitvars>>

\* lines 106-110: driver.print_pdf(content_bytes, job.options) answering `out`
PrintPdf(out) ==
    /\ jpc = "print_pdf"
    /\ out \in PrintPdfOutcomes(call.driver)
    /\ LET r == print_pdf(call.driver, out) IN
        call' = Returned([call EXCEPT !.pdfCalls = @ + 1, !.pdfOptions = job.options,
                                      !.deviceCalls = @ + r.deviceCalls],
                         r.ret)
    /\ jpc' = "done"
    /\ printed' = Accepted(printed, call.evCid, out)
    /\ UNCHANGED <<seen, seenOther, cache, job, content_bytes, copy, prev,
                   lookup, subvars, resubs, unitvars>>

\* the caller takes the result; the next call may start
Return ==
    /\ jpc = "done"
    /\ jpc' = "idle"
    /\ prev' = [isJob |-> call.isJob, evCid |-> call.evCid, parsed |-> call.parsed]
    /\ call' = NoCall
    /\ job' = NoJob
    /\ content_bytes' = <<>>
    /\ copy' = 0
    /\ UNCHANGED <<seen, seenOther, cache, lookup, printed, subvars, resubs,
                   unitvars>>

\* no direct get_printer_info call yet
NoLookup ==
    [seq |-> 0, key |-> <<>>, answer |-> EmptyMap, info |-> EmptyMap, probes |-> 0,
     again |-> FALSE]

\* the call came back empty-handed from a probe
ProbedInVain(l) == l.probes = 1 /\ DOMAIN l.info = {}

\* a direct get_printer_info(host, port) call, the device answering `probe`
\* when asked; `again` marks a call for the key the call before it probed
\* in vain
GetPrinterInfo(host, port, probe) ==
    /\ jpc = "idle"
    /\ LET r == get_printer_info(cache, host, port, probe) IN
        /\ cache' = r.cache
        /\ lookup' = [seq |-> 1 - lookup.seq, key |-> Key(host, port),
                      answer |-> probe, info |-> r.info, probes |-> r.probes,
                      again |-> ProbedInVain(lookup) /\ lookup.key = Key(host, port)]
    /\ UNCHANGED <<seen, seenOther, jpc, job, content_bytes, copy, call, prev,
                   printed, subvars, resubs, unitvars>>

\* a direct clear_printer_cache(host, port) call
ClearPrinterCache(host, port) ==
    /\ jpc = "idle"
    /\ cache' = clear_printer_cache(cache, host, port)
    /\ UNCHANGED <<seen, seenOther, jpc, job, content_bytes, copy, call, prev,
                   lookup, printed, subvars, resubs, unitvars>>

\* the answers that matter to the job in hand: only a zpl job has its
\* payload inspected and its printer asked
ZplInHand(pc, j) == pc = "resolve" /\ j.printer_type = S_zpl
ResolveOutcomesOf(pc, j) ==
    IF ZplInHand(pc, j) THEN ResolveOutcomes
    ELSE {[ok |-> FALSE, bytes |-> <<>>], [ok |-> TRUE, bytes |-> P_plain]}
ProbesOf(pc, j) == IF ZplInHand(pc, j) THEN ProbeResults ELSE {EmptyMap}

\* _seen_correlations may already hold ids of earlier events
Prefill == {0, MAX_IDEMPOTENCY_CACHE - 1}

\* _printer_info_cache may already hold what an earlier probe learned
Precached == {[k \in {} |-> EmptyMap], [k \in {Key(H1, DEFAULT_PORT)} |-> [width_dots |-> 812]]}

InitJobVars ==
    /\ seen = {}
    /\ jpc = "idle"
    /\ job = NoJob
    /\ content_bytes = <<>>
    /\ copy = 0
    /\ call = NoCall
    /\ prev = NoPrev
    /\ lookup = NoLookup
    /\ printed = {}

\* no direct call of a pipeline function is in hand
NoAuth == [scheme |-> "none", user |-> "", pass |-> "", token |-> ""]
NoRequest == [sent |-> FALSE, url |-> <<>>, auth |-> NoAuth]
NoResolved == [ok |-> FALSE, bytes |-> <<>>]
NoWritten == [bytes |-> <<>>, form |-> ""]
NoPicked == [printer_type |-> None, raised |-> FALSE, driver |-> ""]
NoBuilt == [event |-> EmptyMap, ok |-> FALSE, job |-> NoJob]
NoLp == [tmp |-> "", created |-> FALSE, out |-> "", ret |-> FALSE]

\* context.py is loaded with empty credentials (lines 14-17); nothing is on
\* disk
InitUnitVars ==
    /\ _instance_url = <<>>
    /\ _access_token = ""
    /\ upc = "idle"
    /\ rjob = NoJob
    /\ written = NoWritten
    /\ request = NoRequest
    /\ resolved = NoResolved
    /\ picked = NoPicked
    /\ built = NoBuilt
    /\ tmpfiles = {}
    /\ lp = NoLp

\* threading.Semaphore(1) of __init__
SEMAPHORE_INITIAL == 1

InitSubVars ==
    /\ running = FALSE
    /\ semaphore = SEMAPHORE_INITIAL
    /\ latest_replay_id = 0
    /\ spc = "idle"
    /\ gpc = "none"
    /\ first_request = TRUE
    /\ num_requested = 1
    /\ batch = [events |-> <<>>, latest_replay_id |-> 0]
    /\ idx = 0
    /\ inbox = <<>>
    /\ pending = 0
    /\ published = 0
    /\ keepalives = 0
    /\ fetches = 0
    /\ received = 0
    /\ handled = <<>>
    /\ dropped = <<>>
    /\ active = 0
    /\ raised_by = "none"
    /\ resubs = 0

InitJob ==
    /\ InitJobVars /\ seenOther \in Prefill /\ cache \in Precached
    /\ InitSubVars /\ InitUnitVars

NextJob ==
    \/ \E event \in DispatchEvents \cup RoutingEvents : process_event(event)
    \/ \E event \in OtherEvents : process_event(event)
    \/ \E out \in ResolveOutcomesOf(jpc, job), probe \in ProbesOf(jpc, job) :
            ResolveAndPrepare(out, probe)
    \/ \E out \in {"ok", "fail", "raise"} : PrintRawCopy(out)
    \/ \E out \in {"ok", "fail", "raise"} : PrintPdf(out)
    \/ Return

SpecJob == InitJob /\ [][NextJob]_vars

\* the printers asked directly
CacheHosts == {H1, H2}
CachePorts == {DEFAULT_PORT, 6101}

\* the arguments of clear_printer_cache: left out (None), empty or zero, or
\* those of a printer
ClearHosts == {None, Str(<<>>)} \cup {Str(h) : h \in CacheHosts}
ClearPorts == {None, IntV(0)} \cup {IntV(p) : p \in CachePorts}

InitCache ==
    /\ InitJobVars /\ seenOther = 0 /\ cache = [k \in {} |-> EmptyMap]
    /\ InitSubVars /\ InitUnitVars

\* direct calls of the cache functions of drivers.py
NextCache ==
    \/ \E host \in CacheHosts, port \in CachePorts, probe \in ProbeResults :
            GetPrinterInfo(host, port, probe)
    \/ \E host \in ClearHosts, port \in ClearPorts : ClearPrinterCache(host, port)

SpecCache == InitCache /\ [][NextCache]_vars

----------------------------------------------------------------------------
(* Claims about the job processor, checked under SpecJob *)

AllOk(outs) == \A i \in 1..Len(outs) : outs[i] = "ok"
NoSideEffect(c) ==
    c.downloads = 0 /\ c.probes = 0 /\ c.outcomes = <<>> /\ c.pdfCalls = 0
RawContent(j) == j.content_type \in {S_raw_uri, S_raw_base64}
PdfContent(j) == j.content_type \in {S_pdf_uri, S_pdf_base64}
\* the call in hand has returned after its content was resolved
DoneDispatched == jpc = "done" /\ call.dispatched
\* the call in hand and the call before it carry the same non-empty id
SameIdTwice ==
    /\ jpc = "done" /\ call.isJob /\ prev.isJob
    /\ call.evCid # <<>> /\ prev.evCid = call.evCid

C2_RawCopies ==
    (DoneDispatched /\ RawContent(job)) =>
        LET outs == call.outcomes IN
        /\ AllOk(outs) => (Len(outs) = Max(1, job.qty) /\ call.ret)
        /\ ~AllOk(outs) =>
              /\ outs[Len(outs)] # "ok"
              /\ AllOk(SubSeq(outs, 1, Len(outs) - 1))
              /\ ~call.ret

\* the statement of C2 outside the zpl setup path: every printer type but
\* zpl
RawCopiesNotZpl ==
    (DoneDispatched /\ RawContent(job) /\ job.printer_type # S_zpl) =>
        LET outs == call.outcomes IN
        /\ AllOk(outs) => (Len(outs) = Max(1, job.qty) /\ call.ret)
        /\ ~AllOk(outs) =>
              /\ outs[Len(outs)] # "ok"
              /\ AllOk(SubSeq(outs, 1, Len(outs) - 1))
              /\ ~call.ret

\* C3: a zpl job with raw content whose payload holds neither ^PW nor ^LL
\* gets the printer info (cache, else probe); with a non-empty info it
\* sends qty copies of setup block + payload and returns true when all
\* copies are sent.
C3_ZplSetupPrepended ==
    (/\ DoneDispatched /\ RawContent(job) /\ job.printer_type = S_zpl
     /\ ~Contains(call.resolved, "^PW") /\ ~Contains(call.resolved, "^LL")) =>
        LET key == Key(job.printer_host.s, job.printer_port) IN
        /\ key \notin DOMAIN cache => call.probes = 1
        /\ key \in DOMAIN cache =>
              /\ call.sent = SetupBlock(cache[key]) \o call.resolved
              /\ Len(call.outcomes) >= 1
              /\ AllOk(call.outcomes) =>
                    (Len(call.outcomes) = Max(1, job.qty) /\ call.ret)

\* C4: a pdf_uri / pdf_base64 job that reaches dispatch makes
\* exactly one print_pdf call, with the job's options, and no print_raw
\* call, for every printer type and qty.
C4_OnePdfCall ==
    (DoneDispatched /\ PdfContent(job)) =>
        /\ call.pdfCalls = 1
        /\ call.pdfOptions = job.options
        /\ call.outcomes = <<>>

\* the statement of C4 for the printer types is_raw does not claim: every
\* type but zpl and raw
PdfOnQueuePrinter ==
    (DoneDispatched /\ PdfContent(job) /\ job.printer_type \notin {S_zpl, S_raw}) =>
        /\ call.pdfCalls = 1
        /\ call.pdfOptions = job.options
        /\ call.outcomes = <<>>

----------------------------------------------------------------------------
(* salesforce/pubsub.py: SalesforcePubSubClient *)
(*                                                                         *)
(* Three parties move: the caller's thread inside subscribe_to_events      *)
(* (spc), the gRPC thread that draws requests from _fetch_request_stream   *)
(* (gpc), and the bus, which answers fetch requests with event batches and *)
(* keepalives (inbox holds the batches on their way).  stop() may be       *)
(* called from another thread at any time.  Events carry the ids 1, 2, ... *)
(* in the order the bus delivers them; each batch carries its own replay   *)
(* id.                                                                     *)

\* a variant of release() that returns two credits
ReleaseTwice(s) == s + 2
\* semaphore.release()
Release(s) == s + 1

\* a variant of acquire() that never blocks
CanAcquireAlways(s) == TRUE
\* semaphore.acquire() can proceed
CanAcquire(s) == s > 0

\* a variant of the event loop that walks the batch backwards
EventAtReversed(b, i) == b.events[Len(b.events) + 1 - i]
\* the i-th consumer_event of  for consumer_event in fetch_response.events
EventAt(b, i) == b.events[i]

\* a variant of the for loop that leaves the batch when the client was
\* stopped
NextPosCancellable(b, i) ==
    IF i < Len(b.events) /\ running THEN [spc |-> "event", idx |-> i + 1]
    ELSE [spc |-> "recv", idx |-> 0]

\* the for loop goes on: the next event of the batch, or the next batch
NextPos(b, i) ==
    IF i < Len(b.events) THEN [spc |-> "event", idx |-> i + 1]
    ELSE [spc |-> "recv", idx |-> 0]

\* a variant in which a per-event failure leaves the receive loop
OnEventFailureRaises(b, i) == [spc |-> "raised", idx |-> i]
\* except Exception (lines 334-335): the failure is logged, the loop goes on
OnEventFailure(b, i) == NextPos(b, i)

\* the finally clause (lines 346-349) sets running to False
Finally == running' = FALSE

\* lines 244-245: subscribe_to_events(channel, handler, num_requested)
Subscribe(n) ==
    /\ spc = "idle"
    /\ running' = TRUE
    /\ num_requested' = n
    /\ spc' = "verify"
    /\ UNCHANGED <<semaphore, latest_replay_id, gpc, first_request, batch, idx,
                   inbox, pending, published, keepalives, fetches, received,
                   handled, dropped, active, raised_by, jobvars, resubs,
                   unitvars>>

\* a variant that opens the subscription stream before the answer of
\* GetTopic is looked at
VerifyAfterOpen(out) ==
    /\ spc = "verify"
    /\ gpc' = "loop"
    /\ IF out = "ok"
       THEN spc' = "recv" /\ UNCHANGED running
       ELSE spc' = "raised" /\ Finally
    /\ raised_by' = IF out = "error" THEN "GetTopic"
                    ELSE IF out = "denied" THEN "can_subscribe" ELSE raised_by
    /\ UNCHANGED <<semaphore, latest_replay_id, first_request, num_requested,
                   batch, idx, inbox, pending, published, keepalives, fetches,
                   received, handled, dropped, active, jobvars, resubs,
                   unitvars>>

\* lines 270-296: GetTopic (out = "error": it raises an RpcError, "denied":
\* can_subscribe is false), then stub.Subscribe(self._fetch_request_stream(...)),
\* which hands a new generator, with first_request = True (line 215), to the
\* gRPC thread
Verify(out) ==
    /\ spc = "verify"
    /\ IF out = "ok"
       THEN spc' = "recv" /\ gpc' = "loop" /\ first_request' = TRUE /\ UNCHANGED running
       ELSE spc' = "raised" /\ Finally /\ UNCHANGED <<gpc, first_request>>
    /\ raised_by' = IF out = "error" THEN "GetTopic"
                    ELSE IF out = "denied" THEN "can_subscribe" ELSE raised_by
    /\ UNCHANGED <<semaphore, latest_replay_id, num_requested, batch, idx,
                   inbox, pending, published, keepalives, fetches, received,
                   handled, dropped, active, jobvars, resubs, unitvars>>

\* line 217: while self.running
GenCheck ==
    /\ gpc = "loop"
    /\ gpc' = IF running THEN "acquire" ELSE "done"
    /\ UNCHANGED <<running, semaphore, latest_replay_id, spc, first_request,
                   num_requested, batch, idx, inbox, pending, published,
                   keepalives, fetches, received, handled, dropped, active,
                   raised_by, jobvars, resubs, unitvars>>

\* line 218: self.semaphore.acquire()
GenAcquire ==
    /\ gpc = "acquire"
    /\ CanAcquire(semaphore)
    /\ semaphore' = semaphore - 1
    /\ gpc' = "yield"
    /\ UNCHANGED <<running, latest_replay_id, spc, first_request,
                   num_requested, batch, idx, inbox, pending, published,
                   keepalives, fetches, received, handled, dropped, active,
                   raised_by, jobvars, resubs, unitvars>>

\* the call is open: requests drawn from the generator are sent to the bus
StreamOpen == spc \in {"recv", "release", "store", "event", "handler"}

\* lines 220-233: the request is built and yielded; gRPC sends it when the
\* call is still open and drops it, with the generator, when it is not
GenYield ==
    /\ gpc = "yield"
    /\ IF StreamOpen
       THEN /\ fetches' = fetches + 1
            /\ pending' = pending + num_requested
            /\ first_request' = FALSE
            /\ gpc' = "loop"
       ELSE /\ gpc' = "done"
            /\ UNCHANGED <<fetches, pending, first_request>>
    /\ UNCHANGED <<running, semaphore, latest_replay_id, spc, num_requested,
                   batch, idx, inbox, published, keepalives, received, handled,
                   dropped, active, raised_by, jobvars, resubs, unitvars>>

\* the bus answers pending requests with a batch of k events
BusSendEvents(k) ==
    /\ StreamOpen
    /\ k >= 1 /\ k <= pending
    /\ published + k <= MaxEvents
    /\ inbox' = Append(inbox,
                       [events |-> [i \in 1..k |-> published + i],
                        latest_replay_id |-> published + k + keepalives])
    /\ pending' = pending - k
    /\ published' = published + k
    /\ UNCHANGED <<running, semaphore, latest_replay_id, spc, gpc,
                   first_request, num_requested, batch, idx, keepalives,
                   fetches, received, handled, dropped, active, raised_by,
                   jobvars, resubs, unitvars>>

\* the bus sends a keepalive: no event, a fresh replay id
BusSendKeepalive ==
    /\ StreamOpen
    /\ ~first_request
    /\ keepalives < MaxKeepalives
    /\ inbox' = Append(inbox,
                       [events |-> <<>>,
                        latest_replay_id |-> published + keepalives + 1])
    /\ keepalives' = keepalives + 1
    /\ UNCHANGED <<running, semaphore, latest_replay_id, spc, gpc,
                   first_request, num_requested, batch, idx, pending,
                   published, fetches, received, handled, dropped, active,
                   raised_by, jobvars, resubs, unitvars>>

\* a variant of the receive step without the test of self.running
RecvBatchIgnoresStop ==
    /\ spc = "recv"
    /\ inbox # <<>>
    /\ batch' = Head(inbox)
    /\ inbox' = Tail(inbox)
    /\ received' = received + 1
    /\ spc' = "release"
    /\ UNCHANGED <<running, semaphore, latest_replay_id, gpc, first_request,
                   num_requested, idx, pending, published, keepalives, fetches,
                   handled, dropped, active, raised_by, jobvars, resubs,
                   unitvars>>

\* a variant of the receive step that leaves the loop of a stopped client
\* only on a batch with events
RecvBatchWaitsForEvents ==
    /\ spc = "recv"
    /\ inbox # <<>>
    /\ batch' = Head(inbox)
    /\ inbox' = Tail(inbox)
    /\ received' = IF ~running /\ Head(inbox).events = <<>> THEN received ELSE received + 1
    /\ IF ~running
       THEN IF Head(inbox).events # <<>>
            THEN spc' = "returned" /\ Finally
            ELSE spc' = "recv" /\ UNCHANGED running
       ELSE spc' = "release" /\ UNCHANGED running
    /\ UNCHANGED <<semaphore, latest_replay_id, gpc, first_request,
                   num_requested, idx, pending, published, keepalives, fetches,
                   handled, dropped, active, raised_by, jobvars, resubs,
                   unitvars>>

\* lines 299-301: the next fetch_response arrives; the loop is left when
\* the client was stopped
RecvBatch ==
    /\ spc = "recv"
    /\ inbox # <<>>
    /\ batch' = Head(inbox)
    /\ inbox' = Tail(inbox)
    /\ received' = received + 1
    /\ IF ~running
       THEN spc' = "returned" /\ Finally
       ELSE spc' = "release" /\ UNCHANGED running
    /\ UNCHANGED <<semaphore, latest_replay_id, gpc, first_request,
                   num_requested, idx, pending, published, keepalives, fetches,
                   handled, dropped, active, raised_by, jobvars, resubs,
                   unitvars>>

\* lines 340-349: the stream raises an RpcError (out = "error"), or ends
\* after the request generator has finished (out = "end")
RecvEnd(out) ==
    /\ spc = "recv"
    /\ out = "end" => (gpc = "done" /\ inbox = <<>>)
    /\ spc' = IF out = "end" THEN "returned" ELSE "raised"
    /\ raised_by' = IF out = "error" THEN "Subscribe" ELSE raised_by
    /\ Finally
    /\ UNCHANGED <<semaphore, latest_replay_id, gpc, first_request,
                   num_requested, batch, idx, inbox, pending, published,
                   keepalives, fetches, received, handled, dropped, active,
                   jobvars, resubs, unitvars>>

\* line 304: self.semaphore.release()
ReleaseCredit ==
    /\ spc = "release"
    /\ semaphore' = Release(semaphore)
    /\ spc' = "store"
    /\ UNCHANGED <<running, latest_replay_id, gpc, first_request,
                   num_requested, batch, idx, inbox, pending, published,
                   keepalives, fetches, received, handled, dropped, active,
                   raised_by, jobvars, resubs, unitvars>>

\* a variant that leaves the replay id of an event batch unstored while its
\* events are walked
StoreReplayKeepalivesOnly ==
    /\ spc = "store"
    /\ latest_replay_id' =
          IF batch.events = <<>> THEN batch.latest_replay_id ELSE latest_replay_id
    /\ spc' = IF batch.events # <<>> THEN "event" ELSE "recv"
    /\ idx' = IF batch.events # <<>> THEN 1 ELSE 0
    /\ UNCHANGED <<running, semaphore, gpc, first_request, num_requested,
                   batch, inbox, pending, published, keepalives, fetches,
                   received, handled, dropped, active, raised_by, jobvars,
                   resubs, unitvars>>

\* a variant that stores the replay id of event batches only
StoreReplayEventsOnly ==
    /\ spc = "store"
    /\ latest_replay_id' =
          IF batch.events # <<>> THEN batch.latest_replay_id ELSE latest_replay_id
    /\ spc' = IF batch.events # <<>> THEN "event" ELSE "recv"
    /\ idx' = IF batch.events # <<>> THEN 1 ELSE 0
    /\ UNCHANGED <<running, semaphore, gpc, first_request, num_requested,
                   batch, inbox, pending, published, keepalives, fetches,
                   received, handled, dropped, active, raised_by, jobvars,
                   resubs, unitvars>>

\* lines 307-313 and 336-338: the replay id of the batch is stored, then
\* the events are walked, or the keepalive is logged
StoreReplay ==
    /\ spc = "store"
    /\ latest_replay_id' = batch.latest_replay_id
    /\ spc' = IF batch.events # <<>> THEN "event" ELSE "recv"
    /\ idx' = IF batch.events # <<>> THEN 1 ELSE 0
    /\ UNCHANGED <<running, semaphore, gpc, first_request, num_requested,
                   batch, inbox, pending, published, keepalives, fetches,
                   received, handled, dropped, active, raised_by, jobvars,
                   resubs, unitvars>>

\* lines 314-332: GetSchema and _decode_event; out = "ok" calls the handler,
\* "schema_error" is an RpcError of GetSchema, "decode_error" an exception
\* of _decode_event
DecodeEvent(out) ==
    /\ spc = "event"
    /\ IF out = "ok"
       THEN /\ handled' = Append(handled, EventAt(batch, idx))
            /\ active' = active + 1
            /\ spc' = "handler"
            /\ UNCHANGED <<idx, dropped>>
       ELSE /\ dropped' = Append(dropped, EventAt(batch, idx))
            /\ spc' = OnEventFailure(batch, idx).spc
            /\ idx' = OnEventFailure(batch, idx).idx
            /\ UNCHANGED <<handled, active>>
    /\ raised_by' = IF out = "schema_error" THEN "GetSchema" ELSE raised_by
    /\ UNCHANGED <<running, semaphore, latest_replay_id, gpc, first_request,
                   num_requested, batch, inbox, pending, published, keepalives,
                   fetches, received, jobvars, resubs, unitvars>>

\* lines 332-335: the handler returns (out = "return") or raises
HandlerEnd(out) ==
    /\ spc = "handler"
    /\ active' = active - 1
    /\ LET pos == IF out = "return" THEN NextPos(batch, idx)
                  ELSE OnEventFailure(batch, idx)
       IN  spc' = pos.spc /\ idx' = pos.idx
    /\ UNCHANGED <<running, semaphore, latest_replay_id, gpc, first_request,
                   num_requested, batch, inbox, pending, published, keepalives,
                   fetches, received, handled, dropped, raised_by, jobvars,
                   resubs, unitvars>>

\* lines 356-361: stop(), from any other thread
Stop ==
    /\ running
    /\ running' = FALSE
    /\ UNCHANGED <<semaphore, latest_replay_id, spc, gpc, first_request,
                   num_requested, batch, idx, inbox, pending, published,
                   keepalives, fetches, received, handled, dropped, active,
                   raised_by, jobvars, resubs, unitvars>>

InitSub ==
    /\ InitJobVars /\ seenOther = 0 /\ cache = [k \in {} |-> EmptyMap]
    /\ InitSubVars /\ InitUnitVars

NextSub ==
    \/ \E n \in 1..MaxRequested : Subscribe(n)
    \/ \E out \in {"ok", "denied", "error"} : Verify(out)
    \/ GenCheck
    \/ GenAcquire
    \/ GenYield
    \/ \E k \in 1..MaxRequested : BusSendEvents(k)
    \/ BusSendKeepalive
    \/ RecvBatch
    \/ \E out \in {"end", "error"} : RecvEnd(out)
    \/ ReleaseCredit
    \/ StoreReplay
    \/ \E out \in {"ok", "schema_error", "decode_error"} : DecodeEvent(out)
    \/ \E out \in {"return", "raise"} : HandlerEnd(out)
    \/ Stop

SpecSub == InitSub /\ [][NextSub]_vars

\* the bus of a stopped client goes on delivering: a keepalive whenever
\* nothing is on its way
BusKeepsDelivering ==
    /\ StreamOpen
    /\ ~running
    /\ inbox = <<>>
    /\ inbox' = <<[events |-> <<>>, latest_replay_id |-> published + keepalives]>>
    /\ UNCHANGED <<running, semaphore, latest_replay_id, spc, gpc,
                   first_request, num_requested, batch, idx, pending,
                   published, keepalives, fetches, received, handled, dropped,
                   active, raised_by, jobvars, resubs, unitvars>>

\* a subscription whose stream raises no RpcError, whose bus keeps
\* delivering after stop(), and whose handler calls terminate; the thread
\* inside subscribe_to_events runs whenever it can
NextSubLive ==
    \/ \E n \in 1..MaxRequested : Subscribe(n)
    \/ \E out \in {"ok", "denied", "error"} : Verify(out)
    \/ GenCheck
    \/ GenAcquire
    \/ GenYield
    \/ \E k \in 1..MaxRequested : BusSendEvents(k)
    \/ BusSendKeepalive
    \/ BusKeepsDelivering
    \/ RecvBatch
    \/ RecvEnd("end")
    \/ ReleaseCredit
    \/ StoreReplay
    \/ \E out \in {"ok", "schema_error", "decode_error"} : DecodeEvent(out)
    \/ \E out \in {"return", "raise"} : HandlerEnd(out)
    \/ Stop

FairSub ==
    /\ WF_vars(RecvBatch)
    /\ WF_vars(ReleaseCredit)
    /\ WF_vars(StoreReplay)
    /\ WF_vars(\E out \in {"ok", "schema_error", "decode_error"} : DecodeEvent(out))
    /\ WF_vars(\E out \in {"return", "raise"} : HandlerEnd(out))
    /\ WF_vars(BusKeepsDelivering)

SpecSubLive == InitSub /\ [][NextSubLive]_vars /\ FairSub

----------------------------------------------------------------------------
(* Claims about the subscription engine, checked under SpecSub *)

\* a batch has been received and not all of its events are handled yet
BatchInHand == spc \in {"release", "store", "event", "handler"}

\* the handler calls of the batch in hand have begun
InHandling == spc \in {"event", "handler"}

\* credits returned so far: one per batch received while running, returned
\* at line 304
Released == received - (IF spc = "release" THEN 1 ELSE 0)

Increasing(s) == \A i \in 1..(Len(s) - 1) : s[i] < s[i + 1]

\* C5: in every reachable state of a subscription with window size w the
\* number of fetch requests issued so far is at most w plus the number of
\* response batches received so far, keepalives included; credits are never
\* overdrawn, and issued requests and free credits together never exceed the
\* initial credit plus the batches received.
C5_FetchesBounded ==
    /\ fetches <= num_requested + received
    /\ semaphore >= 0
    /\ fetches + semaphore <= SEMAPHORE_INITIAL + received

\* the bound of C5 is met with equality after an event batch and a keepalive
C5_Witness ==
    /\ num_requested = 1
    /\ received = 2
    /\ fetches = 3
    /\ keepalives >= 1
    /\ published >= 1

C7_HandlerOrder ==
    /\ Increasing(handled)
    /\ active <= 1
    /\ active = 1 <=> spc = "handler"

\* three events of two batches have been handled, a batch of several events
\* among them
C7_Witness ==
    /\ handled = <<1, 2, 3>>
    /\ received = 2
    /\ keepalives = 0

\* C8, as stated: while any event of a batch is being handled the stored
\* replay cursor still holds the value of the previous batch; it advances to
\* the batch's value only after the handler has returned for every event.
C8_CursorAfterHandlers == InHandling => latest_replay_id # batch.latest_replay_id

\* C8, amended: the stored replay cursor advances to a batch's latest replay
\* id on receipt of the batch, before the handler is called for any of its
\* events: while an event of the batch is being handled the cursor already
\* holds that batch's value.
C8_CursorOnReceipt == InHandling => latest_replay_id = batch.latest_replay_id

\* the handler runs for an event of the second batch, the cursor is at that
\* batch's replay id
C8_Witness ==
    /\ spc = "handler"
    /\ received = 2
    /\ latest_replay_id = batch.latest_replay_id
    /\ latest_replay_id = 2

\* C9: after every response batch received while the subscription is
\* running, event batch or keepalive, the stored replay cursor equals that
\* batch's latest replay id.
C9_CursorIsLatest ==
    (spc = "recv" /\ received > 0) => latest_replay_id = batch.latest_replay_id

\* a keepalive that followed an event batch has been taken in
C9_Witness ==
    /\ spc = "recv"
    /\ received = 2
    /\ batch.events = <<>>
    /\ handled = <<1>>
    /\ latest_replay_id = 2

\* C10: a failure confined to one event (schema lookup, decoding, or the
\* handler raising) does not end the subscription: from the handling of an
\* event the receive loop goes to the next event of the batch, or past the
\* last event to the next batch, and neither returns nor raises.
C10_FailureConfined ==
    [][InHandling =>
          /\ spc' \in {"event", "handler", "recv"}
          /\ spc' = "recv" => idx = Len(batch.events)
          /\ idx' # idx => (spc' = "recv" \/ idx' = idx + 1)
          /\ Len(handled') + Len(dropped') >= Len(handled) + Len(dropped)]_vars

\* the first event failed to decode; the second event of the same batch and
\* the event of the next batch were handled
C10_Witness ==
    /\ dropped = <<1>>
    /\ handled = <<2, 3>>
    /\ received = 2
    /\ spc = "recv"

\* the calls of a subscription that can raise an RpcError
RpcCalls == {"GetTopic", "Subscribe", "GetSchema"}

\* C11: an RpcError raised by a call made during a subscription (GetTopic,
\* receiving from the subscription stream, a per-event GetSchema) ends the
\* subscription: subscribe_to_events has raised, no handler call is in
\* progress and running is false.
C11_RpcErrorFatal ==
    raised_by \in RpcCalls => (spc = "raised" /\ ~running /\ active = 0)

\* the statement of C11 for the calls outside the per-event try
RpcErrorFatalOutsideEvents ==
    raised_by \in {"GetTopic", "Subscribe"} => (spc = "raised" /\ ~running /\ active = 0)

\* C12: when GetTopic fails or reports can_subscribe false,
\* subscribe_to_events raises without opening the subscription stream: the
\* request generator is never started, no fetch request is issued, no batch
\* is received, no handler is invoked, and running is false afterwards.
C12_NoStreamWithoutPermission ==
    raised_by \in {"GetTopic", "can_subscribe"} =>
        /\ spc = "raised"
        /\ ~running
        /\ gpc = "none"
        /\ fetches = 0 /\ pending = 0
        /\ received = 0 /\ inbox = <<>>
        /\ handled = <<>> /\ dropped = <<>> /\ active = 0

\* subscribing was refused
C12_Witness ==
    /\ raised_by = "can_subscribe"
    /\ spc = "raised"
    /\ ~running
    /\ num_requested = MaxRequested

\* stop() has been called and subscribe_to_events is still streaming
StoppedStreaming == ~running /\ StreamOpen

\* C13: once stop() has been called while the subscription is streaming,
\* the first batch received after it makes the receive loop exit: none of
\* its events is decoded or handled, and no event is handled afterwards.
C13_NoHandlingAfterStop ==
    [][/\ (StoppedStreaming /\ received' = received + 1) =>
              (spc' = "returned" /\ handled' = handled /\ dropped' = dropped)
       /\ spc \in {"returned", "raised"} =>
              (handled' = handled /\ dropped' = dropped /\ spc' = spc)]_vars

\* the loop was left on a batch that carried event 2; only event 1, taken
\* in before stop(), was handled
C13_Witness ==
    /\ spc = "returned"
    /\ batch.events = <<2>>
    /\ handled = <<1>>
    /\ dropped = <<>>
    /\ raised_by = "none"

\* C14: when stop() is called while the subscription is streaming, every
\* handler call terminates and the bus keeps delivering batches,
\* subscribe_to_events eventually returns, without raising.
C14_StopReturns == StoppedStreaming ~> (spc = "returned")

\* stop() came while the handler was running; subscribe_to_events returned
\* on the next batch
C14_Witness ==
    /\ spc = "returned"
    /\ ~running
    /\ received >= 2
    /\ handled # <<>>
    /\ gpc = "acquire"

----------------------------------------------------------------------------
(* Further claims about the job processor, checked under SpecJob *)

\* len(_seen_correlations)
SeenLen == Cardinality(seen) + seenOther

\* C15: the idempotency set never holds more than 10,000 ids; an id that
\* arrives while the set holds 10,000 ids removes all of them before it is
\* inserted, so the set then holds exactly that id.
C15_IdempotencyBounded ==
    [][/\ Cardinality(seen') + seenOther' <= MAX_IDEMPOTENCY_CACHE
       /\ (SeenLen = MAX_IDEMPOTENCY_CACHE /\ <<seen, seenOther>>' # <<seen, seenOther>>) =>
              /\ seenOther' = 0
              /\ Cardinality(seen') = 1
              /\ seen' \cap seen = {}
              /\ seen' = {call'.evCid}]_vars

\* id a filled the set to 10,000 ids; id b then replaced them all
C15_Witness ==
    /\ prev.parsed /\ prev.evCid = CidA
    /\ call.parsed /\ call.evCid = CidB /\ ~call.dup
    /\ seen = {CidB}
    /\ seenOther = 0

\* the payload holds a setup command of its own
SelfConfigured(bytes) == Contains(bytes, "^PW") \/ Contains(bytes, "^LL")

\* C16: for a zpl job whose resolved payload contains ^PW or ^LL the bytes
\* handed to the driver are exactly the resolved payload, no probe is made
\* and the printer-info cache is left unchanged, whatever the cache holds
\* and whatever a probe would return.
C16_SelfConfiguredUntouched ==
    [][/\ (/\ jpc = "resolve" /\ job.printer_type = S_zpl
           /\ call'.dispatched /\ SelfConfigured(call'.resolved)) =>
              /\ jpc' = "print_raw"
              /\ content_bytes' = call'.resolved
              /\ call'.sent = call'.resolved
              /\ call'.probes = 0
              /\ cache' = cache
       /\ (jpc = "print_raw" /\ job.printer_type = S_zpl /\ SelfConfigured(call.resolved)) =>
              /\ content_bytes' = content_bytes
              /\ call'.sent = call.sent
              /\ call'.probes = 0
              /\ cache' = cache]_vars

\* a zpl job with a ^LL payload was sent as it is, to a printer whose info
\* is cached
C16_Witness ==
    /\ jpc = "done" /\ call.dispatched /\ call.ret
    /\ job.printer_type = S_zpl
    /\ call.resolved = P_ll
    /\ call.sent = P_ll
    /\ Len(call.outcomes) = MaxQty
    /\ Key(H1, DEFAULT_PORT) \in DOMAIN cache

\* C18: for a zpl job whose payload holds neither ^PW nor ^LL and whose
\* probe fails or gives an empty map (so that the cache has no entry for the
\* printer afterwards), the payload is sent unmodified, qty times, and
\* process_event returns true when every copy is sent.
C18_ProbeFailureSilent ==
    (/\ DoneDispatched /\ job.printer_type = S_zpl
     /\ ~SelfConfigured(call.resolved)
     /\ Key(job.printer_host.s, job.printer_port) \notin DOMAIN cache) =>
        /\ call.sent = call.resolved
        /\ Len(call.outcomes) >= 1
        /\ AllOk(call.outcomes) => (Len(call.outcomes) = Max(1, job.qty) /\ call.ret)

----------------------------------------------------------------------------
(* Claims about the printer-info cache, checked under SpecCache *)

\* C17: when the probe for host:port gives an empty map, get_printer_info
\* returns the empty map and adds no entry to the cache, so the next
\* get_printer_info call for the same host:port probes again.
C17_EmptyProbeNotCached ==
    [][lookup'.seq # lookup.seq =>
          /\ (lookup'.key \notin DOMAIN cache /\ DOMAIN lookup'.answer = {}) =>
                 /\ DOMAIN lookup'.info = {}
                 /\ lookup'.probes = 1
                 /\ cache' = cache
          /\ ProbedInVain(lookup') => lookup'.key \notin DOMAIN cache'
          /\ lookup'.again => lookup'.probes = 1]_vars

\* the call after a probe in vain probed the same printer again, this time
\* with an answer, which is now cached
C17_Witness ==
    /\ lookup.again
    /\ lookup.probes = 1
    /\ lookup.info = [width_dots |-> 812]
    /\ lookup.key \in DOMAIN cache
    /\ cache[lookup.key] = lookup.info

----------------------------------------------------------------------------
(* Claims about routing and rejection, checked under SpecJob *)

\* Type__c, trimmed and lower-cased, equals print_job
IsPrintJobType(v) == v.tag = "str" /\ strip(lower(v.s)) = S_print_job

\* Type__c is missing, None, or a string
TypeIsText(v) == v.tag \in {"none", "str"}

\* the step that starts a process_event call
CallStarts == jpc = "idle" /\ jpc' # "idle"

\* what C19 says of a call for an event of another type
IgnoredQuietly ==
    /\ jpc' = "done"
    /\ ~call'.ret /\ ~call'.raised
    /\ ~call'.isJob /\ ~call'.parsed /\ job' = NoJob
    /\ NoSideEffect(call')
    /\ seen' = seen /\ seenOther' = seenOther /\ cache' = cache

Unroutable == jpc = "done" /\ call.isJob /\ (call.hostEmpty \/ call.contentEmpty)

\* C20, as stated: a print_job event whose printer_host or content is empty
\* is rejected: process_event returns false and makes no download, no probe
\* and no driver call.
C20_Rejected == Unroutable => (~call.ret /\ NoSideEffect(call))

\* C20, amended: such an event causes no download, no probe and no driver
\* call; process_event returns false, except that it returns true when the
\* event parses and its correlation id is already in the idempotency set.
C20_RejectedUnlessDuplicate ==
    Unroutable =>
        /\ NoSideEffect(call) /\ ~call.dispatched /\ ~call.raised
        /\ call.ret <=> call.dup
        /\ call.dup => (call.parsed /\ call.evCid \in seen)

\* an event with a host, a new correlation id and no content was rejected
C20_Witness ==
    /\ Unroutable
    /\ call.contentEmpty /\ ~call.hostEmpty
    /\ call.parsed /\ ~call.dup /\ ~call.ret
    /\ call.evCid = CidA /\ CidA \in seen

----------------------------------------------------------------------------
(* Claim C21, checked under SpecJob *)

\* the content type ends in neither _uri nor _base64
Unsupported(j) == ~endswith(j.content_type, S_uri) /\ ~endswith(j.content_type, S_base64)

\* the call has ended with False, without raising, and has touched neither a
\* driver nor a printer
FailedBeforeDriver(c) ==
    /\ c.done /\ ~c.ret /\ ~c.raised
    /\ c.driver = "" /\ c.outcomes = <<>> /\ c.pdfCalls = 0 /\ c.probes = 0

\* C21: when the content of a job cannot be resolved (the download or the
\* decoding fails, or the content type ends in neither _uri nor _base64),
\* process_event returns False without raising, no driver is called and no
\* printer is probed.
C21_ResolveFailureReturnsFalse ==
    [][(jpc = "resolve" /\ (Unsupported(job) \/ ~call'.dispatched))
          => /\ jpc' = "done"
             /\ FailedBeforeDriver(call')
             /\ cache' = cache]_vars

\* a download for a zpl printer has failed and the call has returned
C21_Witness ==
    /\ jpc = "done" /\ call.parsed /\ ~call.dup
    /\ call.downloads = 1 /\ ~call.dispatched /\ ~call.ret
    /\ job.printer_type = S_zpl

----------------------------------------------------------------------------
(* Claim C28, checked under SpecJob *)

\* C28: process_event returns True for a print job with a non-empty
\* correlation id only if a driver has accepted the content of a job with
\* that id, in this call or in an earlier one; a call that follows a failed
\* call for the same id does not report success without printing.
C28_TrueOnlyIfPrinted ==
    (jpc = "done" /\ call.isJob /\ call.evCid # <<>> /\ call.ret)
        => call.evCid \in printed

----------------------------------------------------------------------------
(* salesforce/context.py, and _resolve_content (processor.py) in detail:   *)
(* the URL and the credentials of the download, the decoding of a base64   *)
(* content character by character                                          *)

\* str.startswith(prefix)
startswith(s, prefix) == Len(s) >= Len(prefix) /\ SubSeq(s, 1, Len(prefix)) = prefix

\* sub in s
InStr(sub, s) ==
    \E i \in 1..(Len(s) - Len(sub) + 1) : SubSeq(s, i, i + Len(sub) - 1) = sub

\* str.rstrip('/')
RECURSIVE rstrip_slash(_)
rstrip_slash(s) ==
    IF s # <<>> /\ s[Len(s)] = "/" THEN rstrip_slash(SubSeq(s, 1, Len(s) - 1)) ELSE s

\* '.salesforce.com' of is_salesforce_url and 'data:' of _resolve_content
S_salesforce_com ==
    <<".", "s", "a", "l", "e", "s", "f", "o", "r", "c", "e", ".", "c", "o",
    "m">>
S_data ==
    <<"d", "a", "t", "a", ":">>

\* the instance the service authenticates against, and the URLs of the jobs:
\* on that instance, on the instance of another tenant, on a foreign host
\* with the platform's domain in the query or as a prefix of its own name,
\* and on a foreign host
U_instance ==
    <<"h", "t", "t", "p", "s", ":", "/", "/", "a", ".", "s", "a", "l", "e",
    "s", "f", "o", "r", "c", "e", ".", "c", "o", "m">>
U_own ==
    <<"h", "t", "t", "p", "s", ":", "/", "/", "a", ".", "s", "a", "l", "e",
    "s", "f", "o", "r", "c", "e", ".", "c", "o", "m", "/", "f">>
U_tenant ==
    <<"h", "t", "t", "p", "s", ":", "/", "/", "b", ".", "s", "a", "l", "e",
    "s", "f", "o", "r", "c", "e", ".", "c", "o", "m", "/", "f">>
U_query ==
    <<"h", "t", "t", "p", "s", ":", "/", "/", "x", ".", "i", "o", "/", "?",
    "u", "=", ".", "s", "a", "l", "e", "s", "f", "o", "r", "c", "e", ".",
    "c", "o", "m">>
U_prefix ==
    <<"h", "t", "t", "p", "s", ":", "/", "/", "a", ".", "s", "a", "l", "e",
    "s", "f", "o", "r", "c", "e", ".", "c", "o", "m", ".", "x", ".", "i",
    "o", "/", "f">>
U_upper ==
    <<"h", "t", "t", "p", "s", ":", "/", "/", "B", ".", "S", "A", "L", "E",
    "S", "F", "O", "R", "C", "E", ".", "C", "O", "M", "/", "f">>
U_plain ==
    <<"h", "t", "t", "p", "s", ":", "/", "/", "x", ".", "i", "o", "/", "f">>
Urls == {U_own, U_tenant, U_query, U_prefix, U_upper, U_plain}

\* the token of the service and the token an event brings
CORE_TOKEN == "core-token"
JOB_TOKEN == "job-token"

\* set_sf_credentials(access_token, instance_url), lines 20-24
SetSfCredentials(access_token, instance_url) ==
    /\ upc = "idle"
    /\ _access_token' = access_token
    /\ _instance_url' = rstrip_slash(instance_url)
    /\ UNCHANGED <<upc, rjob, written, request, resolved, picked, built, tmpfiles,
                   lp, jobvars, subvars, resubs>>

\* is_salesforce_url(url), lines 39-43, with the module's _instance_url
is_salesforce_url(instance_url, url) ==
    IF instance_url = <<>> \/ url = <<>>
    THEN FALSE
    ELSE startswith(url, instance_url) \/ InStr(S_salesforce_com, lower(url))

\* _BearerAuth(token), lines 228-235: Authorization: Bearer <token>
_BearerAuth(token) == [scheme |-> "bearer", user |-> "", pass |-> "", token |-> token]

\* _build_requests_auth(auth_config), lines 196-225; None is NoAuth
_build_requests_auth(auth_config) ==
    LET auth_type == GetOr(auth_config, "type", "")
        user == GetOr(auth_config, "user", "")
        password == GetOr(auth_config, "pass", "")
        token == GetOr(auth_config, "token", "")
    IN  IF DOMAIN auth_config = {} THEN NoAuth
        ELSE IF auth_type = "BearerToken"
        THEN IF token # "" THEN _BearerAuth(token) ELSE NoAuth
        ELSE IF auth_type \in {"BasicAuth", "DigestAuth"} /\ user # ""
        THEN IF auth_type = "DigestAuth"
             THEN [scheme |-> "digest", user |-> user, pass |-> password, token |-> ""]
             ELSE [scheme |-> "basic", user |-> user, pass |-> password, token |-> ""]
        ELSE NoAuth

\* a variant of the choice of credentials that looks at the URL first
DownloadAuthUrlFirst(j, instance_url, access_token) ==
    IF is_salesforce_url(instance_url, j.content.s) THEN _BearerAuth(access_token)
    ELSE IF DOMAIN j.auth_config # {} THEN _build_requests_auth(j.auth_config)
    ELSE NoAuth
\* lines 171-177: the auth of the GET
DownloadAuth(j, instance_url, access_token) ==
    IF DOMAIN j.auth_config # {} THEN _build_requests_auth(j.auth_config)
    ELSE IF is_salesforce_url(instance_url, j.content.s) THEN _BearerAuth(access_token)
    ELSE NoAuth

\* the base64 alphabet
B64 ==
    <<"A", "B", "C", "D", "E", "F", "G", "H", "I", "J", "K", "L", "M", "N",
    "O", "P", "Q", "R", "S", "T", "U", "V", "W", "X", "Y", "Z", "a", "b",
    "c", "d", "e", "f", "g", "h", "i", "j", "k", "l", "m", "n", "o", "p",
    "q", "r", "s", "t", "u", "v", "w", "x", "y", "z", "0", "1", "2", "3",
    "4", "5", "6", "7", "8", "9", "+", "/">>
IsB64(c) == \E i \in 1..Len(B64) : B64[i] = c
B64Val(c) == (CHOOSE i \in 1..Len(B64) : B64[i] = c) - 1
B64Char(v) == B64[v + 1]

\* base64.b64encode(b): three bytes give four characters, the last group is
\* padded with '='
RECURSIVE b64encode(_)
b64encode(b) ==
    IF b = <<>> THEN <<>>
    ELSE IF Len(b) = 1
    THEN <<B64Char(b[1] \div 4), B64Char((b[1] % 4) * 16), "=", "=">>
    ELSE IF Len(b) = 2
    THEN <<B64Char(b[1] \div 4), B64Char((b[1] % 4) * 16 + b[2] \div 16),
           B64Char((b[2] % 16) * 4), "=">>
    ELSE <<B64Char(b[1] \div 4), B64Char((b[1] % 4) * 16 + b[2] \div 16),
           B64Char((b[2] % 16) * 4 + b[3] \div 64), B64Char(b[3] % 64)>>
         \o b64encode(SubSeq(b, 4, Len(b)))

\* binascii.a2b_base64, not strict: characters outside the alphabet are
\* skipped, a '=' that completes a group of four ends the input, and data
\* left in an incomplete group is an error
A2bStart == [quad |-> 0, pads |-> 0, left |-> 0, out |-> <<>>, done |-> FALSE]
RECURSIVE a2b_base64(_, _)
a2b_base64(s, st) ==
    IF s = <<>> \/ st.done THEN st
    ELSE LET c == Head(s)
             v == B64Val(c)
         IN  IF c = "="
             THEN IF st.quad >= 2 /\ st.quad + st.pads + 1 >= 4
                  THEN [st EXCEPT !.done = TRUE]
                  ELSE a2b_base64(Tail(s),
                                  IF st.quad >= 2 THEN [st EXCEPT !.pads = @ + 1] ELSE st)
             ELSE IF ~IsB64(c)
             THEN a2b_base64(Tail(s), st)
             ELSE a2b_base64(Tail(s),
                    CASE st.quad = 0 ->
                           [st EXCEPT !.quad = 1, !.pads = 0, !.left = v]
                      [] st.quad = 1 ->
                           [st EXCEPT !.quad = 2, !.pads = 0, !.left = v % 16,
                                      !.out = Append(@, st.left * 4 + v \div 16)]
                      [] st.quad = 2 ->
                           [st EXCEPT !.quad = 3, !.pads = 0, !.left = v % 4,
                                      !.out = Append(@, st.left * 16 + v \div 4)]
                      [] st.quad = 3 ->
                           [st EXCEPT !.quad = 0, !.pads = 0, !.left = 0,
                                      !.out = Append(@, st.left * 64 + v)])

\* base64.b64decode(s): [ok, bytes]; ok = FALSE when it raises binascii.Error
b64decode(s) ==
    LET st == a2b_base64(s, A2bStart) IN
    IF st.done \/ st.quad = 0
    THEN [ok |-> TRUE, bytes |-> st.out]
    ELSE [ok |-> FALSE, bytes |-> <<>>]

\* raw.split(',', 1)[1]
AfterComma(raw) ==
    LET i == CHOOSE i \in 1..Len(raw) :
                 raw[i] = "," /\ \A k \in 1..(i - 1) : raw[k] # ","
    IN  SubSeq(raw, i + 1, Len(raw))

\* a variant of the re-padding that adds nothing
repad_none(raw) == raw
\* line 189: raw += '=' * (-len(raw) % 4)
repad(raw) == raw \o [i \in 1..((4 - (Len(raw) % 4)) % 4) |-> "="]

\* lines 185-190: the *_base64 branch; .strip() raises on a content that
\* is not a string
DecodeContent(content) ==
    IF content.tag # "str" THEN [ok |-> FALSE, bytes |-> <<>>]
    ELSE LET raw0 == strip(content.s)
             raw1 == IF InStr(<<",">>, raw0) /\ startswith(raw0, S_data)
                     THEN AfterComma(raw0) ELSE raw0
         IN  b64decode(repad(raw1))

----------------------------------------------------------------------------
(* Direct calls of _resolve_content, get_printer_driver,                   *)
(* PrintJob.from_event and CUPSDriver._lp, specification SpecUnit          *)

\* longest byte content a *_base64 job is written from
MaxBytes == 4

\* the fields of a PrintJob that _resolve_content reads
RJob(content_type, content, auth_config) ==
    [content_type |-> content_type, content |-> content, auth_config |-> auth_config]

\* Auth_Config__c after json.loads
NoAuthConfig == [k \in {} |-> ""]
AuthConfigs ==
    {NoAuthConfig,
     [type |-> "BasicAuth", user |-> "u", pass |-> "p"],
     [type |-> "BasicAuth", pass |-> "p"],
     [type |-> "DigestAuth", user |-> "u", pass |-> "p"],
     [type |-> "DigestAuth", user |-> "u"],
     [type |-> "BearerToken", token |-> JOB_TOKEN],
     [type |-> "BearerToken"],
     [type |-> "ApiKey", user |-> "u"],
     [user |-> "u", pass |-> "p"]}

\* the byte contents and the forms in which their base64 text arrives
ByteValues == {0, 65, 255}
RECURSIVE ByteSeqs(_)
ByteSeqs(n) ==
    IF n = 0 THEN {<<>>}
    ELSE {Append(b, v) : b \in ByteSeqs(n - 1), v \in ByteValues}
Contents == UNION {ByteSeqs(n) : n \in 1..MaxBytes}

RECURSIVE StripPads(_)
StripPads(s) ==
    IF s # <<>> /\ s[Len(s)] = "=" THEN StripPads(SubSeq(s, 1, Len(s) - 1)) ELSE s

Forms == {"padded", "unpadded", "one_pad_removed", "spaced", "data_uri", "first_char"}
Written(b, form) ==
    LET p == b64encode(b) IN
    CASE form = "padded" -> p
      [] form = "unpadded" -> StripPads(p)
      [] form = "one_pad_removed" ->
            IF p[Len(p)] = "=" THEN SubSeq(p, 1, Len(p) - 1) ELSE p
      [] form = "spaced" -> <<" ", "\n">> \o p \o <<"\r", "\n", " ">>
      [] form = "data_uri" -> S_data \o <<"x", ";", "b", ",">> \o p
      [] form = "first_char" -> <<Head(p)>>

\* the jobs given to _resolve_content, each with what its content was
\* written from
UriJobs ==
    {[job |-> RJob(ct, Str(u), a), written |-> NoWritten] :
        ct \in {S_raw_uri, S_pdf_uri}, u \in Urls, a \in AuthConfigs}
Base64Jobs ==
    {[job |-> RJob(S_raw_base64, Str(Written(b, f)), NoAuthConfig),
      written |-> [bytes |-> b, form |-> f]] : b \in Contents, f \in Forms}
OddJobs ==
    {[job |-> RJob(ct, c, NoAuthConfig), written |-> NoWritten] :
        ct \in {<<>>, S_zpl}, c \in {Str(U_plain)}}
    \cup {[job |-> RJob(ct, IntV(5), NoAuthConfig), written |-> NoWritten] :
            ct \in {S_raw_uri, S_raw_base64}}

\* what a GET can answer: a body, or an error (the request fails, or
\* raise_for_status raises on a status that is not 2xx)
Responses == {[ok |-> FALSE, bytes |-> <<>>], [ok |-> TRUE, bytes |-> <<65>>]}

\* _resolve_content(job), lines 161-193, the GET answering `out`
ResolveContent(j, w, out) ==
    /\ upc = "idle"
    /\ upc' = "resolved"
    /\ rjob' = j
    /\ written' = w
    /\ IF endswith(j.content_type, S_uri)
       THEN IF j.content.tag # "str"
            THEN request' = NoRequest /\ resolved' = NoResolved
            ELSE /\ request' = [sent |-> TRUE, url |-> j.content.s,
                                auth |-> DownloadAuth(j, _instance_url, _access_token)]
                 /\ resolved' = out
       ELSE IF endswith(j.content_type, S_base64)
       THEN request' = NoRequest /\ resolved' = DecodeContent(j.content)
       ELSE request' = NoRequest /\ resolved' = NoResolved
    /\ UNCHANGED <<_instance_url, _access_token, picked, built, tmpfiles, lp,
                   jobvars, subvars, resubs>>

\* the values of printer_type a caller passes to get_printer_driver
DriverTypeValues ==
    {None, Str(<<>>), Str(<<" ">>), Str(S_zpl), Str(S_raw), Str(S_cups), Str(S_ipp),
     Str(<<" ", "Z", "p", "l">>), Str(<<"R", "A", "W", " ">>),
     Str(<<" ", "C", "U", "P", "S", " ">>), Str(<<"I", "p", "p", "\n">>),
     Str(<<"p", "d", "f">>), Str(<<"c", "u", "p", "s", "d">>), IntV(0), IntV(5)}

\* get_printer_driver(host, port, printer_type), lines 297-313, called with
\* any value; .lower() raises on a value that is truthy and not a string
GetPrinterDriver(printer_type) ==
    /\ upc = "idle"
    /\ upc' = "picked"
    /\ picked' = IF NormRaises(printer_type)
                 THEN [printer_type |-> printer_type, raised |-> TRUE, driver |-> ""]
                 ELSE [printer_type |-> printer_type, raised |-> FALSE,
                       driver |-> get_printer_driver(OrElse(printer_type, Str(<<>>)).s)]
    /\ UNCHANGED <<_instance_url, _access_token, rjob, written, request, resolved,
                   built, tmpfiles, lp, jobvars, subvars, resubs>>

\* the event maps given to from_event
WithAuthConfig(e, a) ==
    [k \in DOMAIN e \cup {"Auth_Config__c"} |-> IF k = "Auth_Config__c" THEN a ELSE e[k]]
UnitPortValues == {None, Str(<<"6", "3", "1">>), Str(<<"l", "p", "t">>), IntV(631)}
UnitTypeValues == {None, Str(S_cups), Str(<<" ", "Z", "P", "L">>), IntV(5)}
UnitContentTypeValues == {None, Str(S_pdf_uri), IntV(5)}
UnitQtyValues ==
    {None, Str(<<>>), Str(<<"x">>), Str(<<"0">>), Str(<<"-", "3">>), Str(<<"2">>),
     IntV(0), IntV(0 - 1), IntV(MaxQty)}
UnitJsonValues == {None, Str(J_copies), Str(J_broken), IntV(5)}
UnitEvents ==
    {WithAuthConfig(Event(Str(S_print_job), Str(H1), po, pt, ct, Str(<<"x">>), q, o, None), a) :
        po \in UnitPortValues, pt \in UnitTypeValues, ct \in UnitContentTypeValues,
        q \in UnitQtyValues, o \in UnitJsonValues, a \in {None, Str(J_broken)}}
    \cup {[k \in {} |-> None], [Type__c |-> Str(S_print_job)]}

\* PrintJob.from_event(event), lines 33-64
FromEvent(event) ==
    /\ upc = "idle"
    /\ upc' = "built"
    /\ built' = [event |-> event, ok |-> from_event(event).ok, job |-> from_event(event).job]
    /\ UNCHANGED <<_instance_url, _access_token, rjob, written, request, resolved,
                   picked, tmpfiles, lp, jobvars, subvars, resubs>>

\* the names tempfile can give
TmpNames == {"tmp1.bin", "tmp2.bin"}

\* a variant of the finally clause that leaves the file
LpFinallyKeeps(files, tmp) == files
\* lines 231-233: if tmp: Path(tmp).unlink(missing_ok=True)
LpFinally(files, tmp) == IF tmp # "" THEN files \ {tmp} ELSE files

\* CUPSDriver._lp, lines 209-213: the temporary file is created and
\* written ("created"), or NamedTemporaryFile raises ("no_file"), or the
\* write raises after the file was created ("write_failed"); an exception
\* goes through except Exception (lines 228-230) and the finally clause
LpOpen(name, out) ==
    /\ upc = "idle"
    /\ name \notin tmpfiles
    /\ CASE out = "created" ->
              /\ upc' = "lp_run"
              /\ tmpfiles' = tmpfiles \cup {name}
              /\ lp' = [tmp |-> name, created |-> TRUE, out |-> "", ret |-> FALSE]
         [] out = "no_file" ->
              /\ upc' = "lp_done"
              /\ tmpfiles' = LpFinally(tmpfiles, "")
              /\ lp' = [tmp |-> "", created |-> FALSE, out |-> out, ret |-> FALSE]
         [] out = "write_failed" ->
              /\ upc' = "lp_done"
              /\ tmpfiles' = LpFinally(tmpfiles \cup {name}, name)
              /\ lp' = [tmp |-> name, created |-> TRUE, out |-> out, ret |-> FALSE]
    /\ UNCHANGED <<_instance_url, _access_token, rjob, written, request, resolved,
                   picked, built, jobvars, subvars, resubs>>

\* lines 215-233: subprocess.run(lp ...) exits with status 0 ("exit_0") or
\* another status ("exit_1"), runs into the timeout ("timeout") or raises
\* another exception ("error"); then the finally clause
LpRun(out) ==
    /\ upc = "lp_run"
    /\ upc' = "lp_done"
    /\ lp' = [lp EXCEPT !.out = out, !.ret = (out = "exit_0")]
    /\ tmpfiles' = LpFinally(tmpfiles, lp.tmp)
    /\ UNCHANGED <<_instance_url, _access_token, rjob, written, request, resolved,
                   picked, built, jobvars, subvars, resubs>>

\* the caller takes the result of the direct call
UnitReturn ==
    /\ upc \in {"resolved", "picked", "built", "lp_done"}
    /\ upc' = "idle"
    /\ rjob' = NoJob
    /\ written' = NoWritten
    /\ request' = NoRequest
    /\ resolved' = NoResolved
    /\ picked' = NoPicked
    /\ built' = NoBuilt
    /\ lp' = NoLp
    /\ UNCHANGED <<_instance_url, _access_token, tmpfiles, jobvars, subvars, resubs>>

InitUnit ==
    /\ InitJobVars /\ seenOther = 0 /\ cache = [k \in {} |-> EmptyMap]
    /\ InitSubVars /\ InitUnitVars

NextUnit ==
    \/ \E url \in {U_instance, U_instance \o <<"/">>} : SetSfCredentials(CORE_TOKEN, url)
    \/ \E x \in UriJobs \cup Base64Jobs \cup OddJobs, out \in Responses :
            ResolveContent(x.job, x.written, out)
    \/ \E printer_type \in DriverTypeValues : GetPrinterDriver(printer_type)
    \/ \E event \in UnitEvents : FromEvent(event)
    \/ \E name \in TmpNames, out \in {"created", "no_file", "write_failed"} :
            LpOpen(name, out)
    \/ \E out \in {"exit_0", "exit_1", "timeout", "error"} : LpRun(out)
    \/ UnitReturn

SpecUnit == InitUnit /\ [][NextUnit]_vars

----------------------------------------------------------------------------
(* Claims C22 to C27, checked under SpecUnit *)

\* the URL is the instance URL, or continues it with a path, a query or a
\* fragment
OnInstance(url, instance_url) ==
    /\ instance_url # <<>>
    /\ startswith(url, instance_url)
    /\ \/ Len(url) = Len(instance_url)
       \/ url[Len(instance_url) + 1] \in {"/", "?", "#"}

\* the GET carries the token of the service
CoreTokenAttached ==
    request.sent /\ request.auth.scheme = "bearer" /\ request.auth.token = CORE_TOKEN

\* C22: the token of the service is attached to a download only when the
\* job has no auth_config of its own and the URL is on the instance the
\* service authenticated against; a URL on any other host, also one that
\* only contains '.salesforce.com' or names another tenant, is fetched
\* without the token.
C22_TokenOnlyToOwnInstance ==
    (upc = "resolved" /\ CoreTokenAttached)
        => /\ DOMAIN rjob.auth_config = {}
           /\ OnInstance(request.url, _instance_url)

\* C23: for a *_uri job with a non-empty auth_config the auth of the GET
\* comes from the auth_config alone: BasicAuth or DigestAuth with a user
\* gives that scheme with the user and the password, BearerToken with a
\* token gives that token as bearer, and the token of the service is never
\* attached, whatever the URL.
C23_AuthFromConfigAlone ==
    (upc = "resolved" /\ request.sent /\ DOMAIN rjob.auth_config # {})
        => LET a == rjob.auth_config
               type == GetOr(a, "type", "")
               user == GetOr(a, "user", "")
               token == GetOr(a, "token", "")
           IN  /\ (type \in {"BasicAuth", "DigestAuth"} /\ user # "")
                     => request.auth =
                            [scheme |-> IF type = "BasicAuth" THEN "basic" ELSE "digest",
                             user |-> user, pass |-> GetOr(a, "pass", ""), token |-> ""]
               /\ (type = "BearerToken" /\ token # "")
                     => request.auth =
                            [scheme |-> "bearer", user |-> "", pass |-> "", token |-> token]
               /\ ~CoreTokenAttached

\* a job with BasicAuth credentials was fetched from the service's own instance
C23_Witness ==
    /\ upc = "resolved" /\ request.sent
    /\ _instance_url = U_instance /\ request.url = U_own
    /\ DOMAIN rjob.auth_config = {"type", "user", "pass"}
    /\ request.auth.scheme = "basic" /\ request.auth.user = "u"

\* the forms of a base64 text that are to decode alike
SameBytesForms == {"padded", "unpadded", "one_pad_removed", "spaced", "data_uri"}

\* C24: a *_base64 content decodes to the same bytes whether it arrives
\* correctly padded, with its trailing '=' removed, with whitespace around
\* it, or behind a 'data:...,' prefix: in each form the result is the bytes
\* the text was encoded from.
C24_SameBytes ==
    (upc = "resolved" /\ written.form \in SameBytesForms)
        => /\ resolved.ok
           /\ resolved.bytes = written.bytes
           /\ resolved = DecodeContent(Str(b64encode(written.bytes)))

\* a four-byte content arrived without its padding and was decoded
C24_Witness ==
    /\ upc = "resolved" /\ written.form = "unpadded" /\ Len(written.bytes) = 4
    /\ Len(rjob.content.s) % 4 = 2
    /\ resolved.ok /\ Len(resolved.bytes) = 4

\* the driver the type asks for: the queue driver for cups and ipp, compared
\* after trimming and lower-casing, the raw-socket driver for everything else
DriverAsStated(v) ==
    IF v.tag = "str" /\ strip(lower(v.s)) \in {S_cups, S_ipp}
    THEN "CUPSDriver" ELSE "RawTCPDriver"

C26_TempFileDeleted ==
    upc = "lp_done"
        => /\ lp.created => lp.tmp \notin tmpfiles
           /\ lp.ret => lp.out = "exit_0"

\* the queue command timed out and the file is gone
C26_Witness ==
    /\ upc = "lp_done" /\ lp.created /\ lp.out = "timeout"
    /\ ~lp.ret /\ lp.tmp \notin tmpfiles

\* a quantity that is missing, empty, not a number, zero or negative; a
\* port that is missing or not a number
BadQty(q) ==
    \/ q.tag = "none"
    \/ q.tag = "str" /\ (q.s = <<>> \/ ~IntOfStr(q.s).ok \/ IntOfStr(q.s).n <= 0)
    \/ q.tag = "int" /\ q.n <= 0
BadPort(p) == p.tag = "none" \/ (p.tag = "str" /\ ~IntOfStr(p.s).ok)

\* from_event has built a job with the defaults the claim names
BuiltAsStated ==
    /\ built.ok
    /\ built.job.qty >= 1
    /\ BadQty(Get(built.event, "Qty__c")) => built.job.qty = 1
    /\ BadPort(Get(built.event, "Printer_Port__c")) => built.job.printer_port = DEFAULT_PORT
    /\ Get(built.event, "Printer_Type__c") = None => built.job.printer_type = S_raw
    /\ Get(built.event, "Options__c") = Str(J_broken) => DOMAIN built.job.options = {}
    /\ Get(built.event, "Auth_Config__c") = Str(J_broken)
          => DOMAIN built.job.auth_config = {}

----------------------------------------------------------------------------
(* subscribe_to_events called again on the same client, specification      *)
(* SpecResub                                                                *)

\* number of subscribe_to_events calls on one client after the first
MaxResubs == 1

\* lines 244-245, on a client whose earlier subscribe_to_events call has
\* returned or raised and whose request generator has ended: the call gets
\* a new channel and a new stream; self.semaphore and self.latest_replay_id
\* are those of __init__ and of the calls before
Resubscribe(n) ==
    /\ spc \in {"returned", "raised"}
    /\ gpc \in {"none", "done"}
    /\ resubs < MaxResubs
    /\ resubs' = resubs + 1
    /\ running' = TRUE
    /\ num_requested' = n
    /\ spc' = "verify"
    /\ gpc' = "none"
    /\ batch' = [events |-> <<>>, latest_replay_id |-> 0]
    /\ idx' = 0
    /\ inbox' = <<>>
    /\ pending' = 0
    /\ UNCHANGED <<semaphore, latest_replay_id, first_request, published,
                   keepalives, fetches, received, handled, dropped, active,
                   raised_by, jobvars, unitvars>>

NextResub ==
    \/ \E n \in 1..MaxRequested : Subscribe(n)
    \/ \E n \in 1..MaxRequested : Resubscribe(n)
    \/ \E out \in {"ok", "denied", "error"} : Verify(out)
    \/ GenCheck
    \/ GenAcquire
    \/ GenYield
    \/ \E k \in 1..MaxRequested : BusSendEvents(k)
    \/ BusSendKeepalive
    \/ BusKeepsDelivering
    \/ RecvBatch
    \/ \E out \in {"end", "error"} : RecvEnd(out)
    \/ ReleaseCredit
    \/ StoreReplay
    \/ \E out \in {"ok", "schema_error", "decode_error"} : DecodeEvent(out)
    \/ \E out \in {"return", "raise"} : HandlerEnd(out)
    \/ Stop

\* the thread inside subscribe_to_events and the gRPC thread that draws the
\* requests from the generator both run whenever they can
FairResub ==
    /\ FairSub
    /\ WF_vars(\E out \in {"ok", "denied", "error"} : Verify(out))
    /\ WF_vars(GenCheck)
    /\ WF_vars(GenAcquire)
    /\ WF_vars(GenYield)

SpecResub == InitSub /\ [][NextResub]_vars /\ FairResub

----------------------------------------------------------------------------
(* Claims C29 and C30, checked under SpecResub *)

\* C29: at the start of every subscribe call with window size w exactly w
\* flow-control credits are available, for every w >= 1 and whether or not
\* an earlier subscription ran on the same client.
C29_CreditsEqualWindow == spc = "verify" => semaphore = num_requested

\* a later subscribe_to_events call has verified the channel and handed its
\* request generator to gRPC
ResubscribedAndVerified ==
    resubs >= 1 /\ spc = "recv" /\ gpc = "loop" /\ first_request

\* C30: when subscribe_to_events is called again on a client whose earlier
\* subscription ended, by stop() or by a fatal error, and the channel is
\* verified, the first fetch request of the new subscription is eventually
\* issued (unless the client is stopped or the call ends first).
C30_ResubscriptionFetches ==
    ResubscribedAndVerified
        ~> (~first_request \/ ~running \/ spc \in {"returned", "raised"})

----------------------------------------------------------------------------
(* Claims C31 to C34 about the flow-control credits and stop()             *)

\* C31: in every reachable state of a subscription the number of available
\* flow-control credits is at most the window size, whatever batches the bus
\* sends, keepalives and several batches answering one fetch request
\* included.
C31_CreditsAtMostWindow == spc # "idle" => semaphore <= num_requested

\* C32: no fetch request is issued after stop() has been called: in every
\* interleaving of stop() with the request generator and the receive loop,
\* the generator yields no request once running is false.
C32_NoFetchAfterStop == [][fetches' = fetches + 1 => running]_vars

\* one subscribe_to_events call on a client, with the gRPC thread that draws
\* the requests from the generator: both threads run whenever they can, the
\* stream may raise, and nothing is called on the client after the call ended
NextSubGen ==
    \/ \E n \in 1..MaxRequested : Subscribe(n)
    \/ \E out \in {"ok", "denied", "error"} : Verify(out)
    \/ GenCheck
    \/ GenAcquire
    \/ GenYield
    \/ \E k \in 1..MaxRequested : BusSendEvents(k)
    \/ BusSendKeepalive
    \/ BusKeepsDelivering
    \/ RecvBatch
    \/ \E out \in {"end", "error"} : RecvEnd(out)
    \/ ReleaseCredit
    \/ StoreReplay
    \/ \E out \in {"ok", "schema_error", "decode_error"} : DecodeEvent(out)
    \/ \E out \in {"return", "raise"} : HandlerEnd(out)
    \/ Stop

SpecSubGen == InitSub /\ [][NextSubGen]_vars /\ FairResub

\* subscribe_to_events has ended: the receive loop saw running false, the
\* stream ended, or an error was raised
Ended == spc \in {"returned", "raised"}

\* C33: after the subscription has ended (stop() observed by the receive
\* loop, or a fatal error), the fetch-request generator eventually
\* terminates: it is never left blocked forever waiting for a credit.
C33_GeneratorTerminates == (Ended /\ gpc # "none") ~> (gpc = "done")

\* the events of sequence s
Elems(s) == {s[i] : i \in 1..Len(s)}

\* C34: there is no mid-batch cancellation: when stop() is called while an
\* event of a batch is being handled, the loop still takes up every
\* remaining event of that batch, one after the other: each is decoded and
\* passed to the handler (an event the loop cannot decode is dropped by its
\* own failure, stopped or not), and the batch is left only past its last
\* event, before the subscription ends.
C34_NoMidBatchCancel ==
    [][(~running /\ InHandling) =>
          /\ spc' \in {"event", "handler", "recv"}
          /\ idx' # idx => (idx' = idx + 1 \/ spc' = "recv")
          /\ (spc = "event" /\ handled' # handled) =>
                 (spc' = "handler" /\ handled' = Append(handled, EventAt(batch, idx)))
          /\ spc' = "recv" =>
                 /\ idx = Len(batch.events)
                 /\ Elems(batch.events) \subseteq Elems(handled') \cup Elems(dropped')]_vars

\* stop() came before the second event of a batch was taken up; the loop is
\* at that event
C34_Witness ==
    /\ ~running
    /\ spc = "event"
    /\ idx = 2
    /\ batch.events = <<1, 2>>
    /\ handled = <<1>>

----------------------------------------------------------------------------
(* The program as started by main.py, specification SpecMain               *)
(*                                                                         *)
(* start_server builds the client, calls start() and runs                  *)
(* subscribe_to_events on /event/Print_Job__e with the handler             *)
(* handle_print_job and the default window; every event of that channel    *)
(* is a print job event.  Nothing in main.py calls stop().                 *)

\* main.py line 109: pubsub_client.start() (pubsub.py lines 351-354)
Start ==
    /\ spc = "idle"
    /\ ~running
    /\ running' = TRUE
    /\ UNCHANGED <<semaphore, latest_replay_id, spc, gpc, first_request,
                   num_requested, batch, idx, inbox, pending, published,
                   keepalives, fetches, received, handled, dropped, active,
                   raised_by, jobvars, resubs, unitvars>>

\* main.py lines 113-129: subscribe_to_events(event_channel,
\* handle_print_job), num_requested left at its default of 1
MainSubscribe == running /\ Subscribe(1)

\* main.py lines 116-119: handle_print_job(event) logs the event and
\* returns; it makes no call into jobs/processor.py
handle_print_job == HandlerEnd("return")

NextMain ==
    \/ Start
    \/ MainSubscribe
    \/ \E out \in {"ok", "denied", "error"} : Verify(out)
    \/ GenCheck
    \/ GenAcquire
    \/ GenYield
    \/ \E k \in 1..MaxRequested : BusSendEvents(k)
    \/ BusSendKeepalive
    \/ RecvBatch
    \/ RecvEnd("error")
    \/ ReleaseCredit
    \/ StoreReplay
    \/ \E out \in {"ok", "schema_error", "decode_error"} : DecodeEvent(out)
    \/ handle_print_job

SpecMain == InitSub /\ [][NextMain]_vars

\* C35: in the program as started by its main entry point, every decoded
\* print_job event the subscription delivers is passed to process_event, so
\* that a valid job leads to a driver dispatch: once the handler has
\* returned for a delivered event, process_event has been called with a
\* print_job event.
C35_EventsReachProcessor == (handled # <<>> /\ active = 0) => call.isJob

----------------------------------------------------------------------------
(* Claims C36 and C37 about the printer-info cache, checked under SpecCache *)

\* a get_printer_info call is made in this step
LookupStep == lookup'.seq # lookup.seq

\* C36: once a non-empty probe result is cached for host:port, every later
\* get_printer_info call for that host:port returns that same map without
\* opening a probe connection, until clear_printer_cache evicts the entry:
\* a call for a cached key returns the cached map, probes nothing and leaves
\* the cache alone, no step changes the map of a key that stays cached, and
\* every map held in the cache is non-empty.
C36_CacheHit ==
    [][/\ (LookupStep /\ lookup'.key \in DOMAIN cache) =>
              /\ lookup'.info = cache[lookup'.key]
              /\ lookup'.probes = 0
              /\ cache' = cache
       /\ \A k \in DOMAIN cache \cap DOMAIN cache' : cache'[k] = cache[k]
       /\ \A k \in DOMAIN cache' : DOMAIN cache'[k] # {}]_vars

\* a call was answered from the cache although the device would by now
\* answer otherwise, while another printer is cached too
C36_Witness ==
    /\ lookup.probes = 0
    /\ lookup.key \in DOMAIN cache
    /\ lookup.info = cache[lookup.key]
    /\ lookup.info = [width_dots |-> 812]
    /\ DOMAIN lookup.answer = {"dpi", "width_dots", "darkness"}
    /\ Cardinality(DOMAIN cache) = 2


\* the cache without the entry of key
Without(c, key) == [k \in DOMAIN c \ {key} |-> c[k]]

\* C37, as stated: clear_printer_cache(host, port) with both arguments given
\* removes exactly the entry keyed host:port and leaves every other entry
\* unchanged (a no-op when the key is absent); clear_printer_cache() with no
\* argument removes all entries; neither call raises.
C37_ClearExactly ==
    [][\A host \in ClearHosts, port \in ClearPorts :
          ClearPrinterCache(host, port) =>
              /\ (host # None /\ port # None) =>
                     cache' = Without(cache, Key(host.s, port.n))
              /\ (host = None /\ port = None) => DOMAIN cache' = {}]_vars

\* C37, amended: clear_printer_cache(host, port) with a non-empty host and a
\* non-zero port removes exactly the entry keyed host:port and leaves every
\* other entry unchanged (a no-op when the key is absent); with an argument
\* left out, an empty host or a port of 0 it removes all entries; no call
\* raises.
C37_ClearExactlyOrAll ==
    [][\A host \in ClearHosts, port \in ClearPorts :
          ClearPrinterCache(host, port) =>
              IF Truthy(host) /\ Truthy(port)
              THEN cache' = Without(cache, Key(host.s, port.n))
              ELSE DOMAIN cache' = {}]_vars

\* the printer asked last was cached and has been evicted since, the entry
\* of another printer is still there
C37_Witness ==
    /\ DOMAIN lookup.info # {}
    /\ lookup.key \notin DOMAIN cache
    /\ Cardinality(DOMAIN cache) = 2

----------------------------------------------------------------------------
(* get_printer_info line by line, with clear_printer_cache calls of other  *)
(* threads in between: specification SpecCacheRace                         *)
(*                                                                         *)
(* upc is the position of the get_printer_info call in hand, lookup holds  *)
(* its key, the answer of the device (its local info) and what it returned. *)
(* Each dict operation is one step.                                        *)

\* a variant of line 106 that subscripts the cache: KeyError when the key
\* is gone
cache_subscript(c, key) ==
    [raised |-> key \notin DOMAIN c,
     info |-> IF key \in DOMAIN c THEN c[key] ELSE EmptyMap]

\* line 106: _printer_info_cache.get(key, {})
cache_get(c, key) ==
    [raised |-> FALSE, info |-> IF key \in DOMAIN c THEN c[key] ELSE EmptyMap]

\* lines 98-99: the key is built and looked for in the cache
InfoBegin(host, port) ==
    /\ jpc = "idle"
    /\ upc \in {"idle", "info_done"}
    /\ lookup' = [NoLookup EXCEPT !.seq = 1 - lookup.seq, !.key = Key(host, port)]
    /\ upc' = IF Key(host, port) \notin DOMAIN cache THEN "info_probe" ELSE "info_return"
    /\ UNCHANGED <<seen, seenOther, cache, jpc, job, content_bytes, copy, call,
                   prev, printed, subvars, resubs, _instance_url,
                   _access_token, rjob, written, request, resolved, picked,
                   built, tmpfiles, lp>>

\* lines 100-101 and 104-105: the device is asked; an empty answer is
\* returned at once
InfoProbe(probe) ==
    /\ upc = "info_probe"
    /\ lookup' = [lookup EXCEPT !.answer = probe, !.probes = 1]
    /\ upc' = IF DOMAIN probe # {} THEN "info_store" ELSE "info_done"
    /\ UNCHANGED <<seen, seenOther, cache, jpc, job, content_bytes, copy, call,
                   prev, printed, subvars, resubs, _instance_url,
                   _access_token, rjob, written, request, resolved, picked,
                   built, tmpfiles, lp>>

\* lines 102-103: _printer_info_cache[key] = info
InfoStore ==
    /\ upc = "info_store"
    /\ cache' = [k \in DOMAIN cache \cup {lookup.key} |->
                    IF k = lookup.key THEN lookup.answer ELSE cache[k]]
    /\ upc' = "info_return"
    /\ UNCHANGED <<seen, seenOther, jpc, job, content_bytes, copy, call, prev,
                   lookup, printed, subvars, resubs, _instance_url,
                   _access_token, rjob, written, request, resolved, picked,
                   built, tmpfiles, lp>>

\* line 106: return _printer_info_cache.get(key, {})
InfoReturn ==
    /\ upc = "info_return"
    /\ LET r == cache_get(cache, lookup.key) IN
        /\ lookup' = [lookup EXCEPT !.info = r.info]
        /\ upc' = IF r.raised THEN "info_raised" ELSE "info_done"
    /\ UNCHANGED <<seen, seenOther, cache, jpc, job, content_bytes, copy, call,
                   prev, printed, subvars, resubs, _instance_url,
                   _access_token, rjob, written, request, resolved, picked,
                   built, tmpfiles, lp>>

NextCacheRace ==
    \/ \E host \in CacheHosts, port \in CachePorts : InfoBegin(host, port)
    \/ \E probe \in ProbeResults : InfoProbe(probe)
    \/ InfoStore
    \/ InfoReturn
    \/ \E host \in ClearHosts, port \in ClearPorts : ClearPrinterCache(host, port)

SpecCacheRace == InitCache /\ [][NextCacheRace]_vars

\* C38: for every interleaving of a clear_printer_cache call (single key or
\* all) with a get_printer_info call in flight for the same host:port,
\* get_printer_info does not fail and returns either the map learned from
\* the device (by this call, or the cached one of an earlier call) or the
\* empty map, and the cache never holds an empty map.
C38_ClearDuringLookup ==
    /\ upc # "info_raised"
    /\ upc = "info_done" =>
           \/ lookup.info = EmptyMap
           \/ /\ lookup.info \in ProbeResults
              /\ lookup.probes = 1 => lookup.info = lookup.answer
    /\ \A k \in DOMAIN cache : DOMAIN cache[k] # {}

\* the device answered, the entry was stored and evicted before line 106:
\* the call returned the empty map, and the entry of another printer is
\* still cached
C38_Witness ==
    /\ upc = "info_done"
    /\ lookup.probes = 1
    /\ DOMAIN lookup.answer # {}
    /\ lookup.info = EmptyMap
    /\ lookup.key \notin DOMAIN cache
    /\ DOMAIN cache # {}

----------------------------------------------------------------------------
(* Claims C39 and C40, checked under SpecJob *)

\* C39: a print_job event with an empty or missing correlation id is never
\* suppressed as a duplicate, however many such events were processed
\* before, and processing it leaves the idempotency set unchanged: the call
\* is not answered as a duplicate, the set is as before, and an event that
\* parses and has a host and a content goes on to content resolution.
C39_EmptyIdNotSuppressed ==
    [][(CallStarts /\ call'.isJob /\ call'.evCid = <<>>) =>
          /\ ~call'.dup
          /\ seen' = seen /\ seenOther' = seenOther
          /\ (call'.parsed /\ ~call'.hostEmpty /\ ~call'.contentEmpty) =>
                 jpc' = "resolve"]_vars

\* the second of two events without a correlation id was printed, with ids
\* of other events in the set
C39_Witness ==
    /\ jpc = "done"
    /\ call.isJob /\ call.evCid = <<>>
    /\ prev.isJob /\ prev.parsed /\ prev.evCid = <<>>
    /\ call.dispatched /\ call.ret /\ ~call.dup
    /\ seen # {}


\* the printer types get_printer_driver knows by name
KnownPrinterTypes == {S_zpl, S_raw, S_cups, S_ipp}

\* C40: a document-print call on the raw-socket driver fails fast: it
\* returns false without reaching for the device, so a document job
\* (pdf_uri / pdf_base64) whose printer_type is outside {zpl, raw, cups,
\* ipp} is handed to the raw-socket driver's print_pdf and ends with
\* process_event returning false and nothing sent.
C40_RawDriverRejectsDocuments ==
    [][/\ (jpc = "print_pdf" /\ call.driver = "RawTCPDriver") =>
              /\ jpc' = "done"
              /\ call'.done /\ ~call'.ret
              /\ call'.pdfCalls = 1
              /\ call'.deviceCalls = 0 /\ call'.outcomes = <<>>
              /\ printed' = printed
       /\ (jpc = "resolve" /\ is_pdf(job) /\ call'.dispatched
              /\ job.printer_type \notin KnownPrinterTypes) =>
              /\ jpc' = "print_pdf"
              /\ call'.driver = "RawTCPDriver"]_vars

\* a downloaded document for a printer of type foo was refused by the
\* raw-socket driver
C40_Witness ==
    /\ jpc = "done"
    /\ call.dispatched /\ call.driver = "RawTCPDriver"
    /\ job.content_type = S_pdf_uri
    /\ job.printer_type = <<"f", "o", "o">>
    /\ call.downloads = 1
    /\ call.pdfCalls = 1 /\ call.deviceCalls = 0
    /\ ~call.ret

=============================================================================
